---- MODULE Spec2Model ----
(***************************************************************************)
(* Model of the practice / test session engine of the multiplication game  *)
(* (src/game): the frame loop of App.run, the TestSessionScene and         *)
(* PracticeSessionScene state machines, the reward arithmetic, the coin    *)
(* balance of the active profile and the score repository.                 *)
(*                                                                         *)
(* Time is counted in units of half a second, so the feedback timers of    *)
(* 1.0, 1.5, 2.5 and 3.0 seconds are the integers 2, 3, 5 and 6, and       *)
(* elapsed, question_start_time, time_limit_seconds and delta_time are     *)
(* integers in that unit.  Ratios of times do not depend on the unit.      *)
(*                                                                         *)
(* Python objects are modelled by value: the scene object that handles a   *)
(* frame is the record ts (test session) or ps (practice session); the     *)
(* profile objects are identified by their identifier and their coins live *)
(* in app.profile_coins, so app.profiles and app.active_profile are        *)
(* references into that heap.  List indices are 0-based as in the source.  *)
(***************************************************************************)
EXTENDS Integers, Sequences, FiniteSets, TLC

VARIABLES
  app,      \* the App: profiles, coins, active profile, score repository
  scene,    \* which scene App._scene is
  ts,       \* the TestSessionScene object created last
  ps,       \* the PracticeSessionScene object created last
  summary,  \* the arguments the summary scene was created with
  last,     \* the call made by the last step of CoinSpec (history variable)
  setup     \* the TestSetupScene or PracticeSetupScene object created last

vars == <<app, scene, ts, ps, summary, last, setup>>

----------------------------------------------------------------------------
(* Bounds of the exploration.                                              *)

\* question_count of a test configuration ranges over 1..MaxQuestions
MaxQuestions == 2
\* a frame delivers at most MaxBatch events
MaxBatch == 2
\* coins of a stored profile at start-up range over 0..MaxInitCoins
MaxInitCoins == 0
\* a practice session is explored up to this elapsed time
MaxPracticeTime == 4
\* deltas of a coin adjustment range over -MaxDelta..MaxDelta
MaxDelta == 5
\* coin adjustments are explored while the balance stays within MaxCoins
MaxCoins == 4
\* random.uniform(0, total) is explored at the points total * k / DrawGrid
DrawGrid == 2

----------------------------------------------------------------------------
(* Program constants.                                                      *)

MAX_INPUT_LEN == 4
INCORRECT_PENALTY == 2
TIME_BONUS_SCALE == 8
FEEDBACK_START == 6
FEEDBACK_REJECT == 3
FEEDBACK_CORRECT == 2
FEEDBACK_WRONG == 5

\* the second operand of a question: random.randint(1, 10) in the source,
\* explored here for the values of this set
Operands == {1}
\* the values of delta_time a frame can have, in time units
FrameTimes == {1, 2}
\* the time limits of the explored test configurations, in time units
TimeLimits == {3}

Max(a, b) == IF a >= b THEN a ELSE b
Min(a, b) == IF a <= b THEN a ELSE b

----------------------------------------------------------------------------
(* Key presses.  A key that passes str.isdigit() is either a decimal digit *)
(* or a digit-like character such as a superscript two, which int()        *)
(* rejects with ValueError.                                                *)

DecimalKeys == {"4"}
DigitLikeKeys == {"sup2"}
DigitKeys == DecimalKeys \cup DigitLikeKeys

DigitValue(c) ==
  CASE c = "0" -> 0 [] c = "1" -> 1 [] c = "2" -> 2 [] c = "3" -> 3
    [] c = "4" -> 4 [] c = "5" -> 5 [] c = "6" -> 6 [] c = "7" -> 7
    [] c = "8" -> 8 [] c = "9" -> 9

IsDecimal(c) == c \in {"0", "1", "2", "3", "4", "5", "6", "7", "8", "9"}

RECURSIVE DecimalValue(_)
DecimalValue(s) ==
  IF s = <<>> THEN 0
  ELSE 10 * DecimalValue(SubSeq(s, 1, Len(s) - 1)) + DigitValue(s[Len(s)])

\* int(self.input_value): ok = FALSE stands for ValueError
ParseInt(s) ==
  IF s # <<>> /\ \A i \in 1..Len(s) : IsDecimal(s[i])
  THEN [ok |-> TRUE, value |-> DecimalValue(s)]
  ELSE [ok |-> FALSE, value |-> 0]

Events == {"CLICK_BACK", "K_ESCAPE", "K_BACKSPACE", "K_RETURN"} \cup DigitKeys

----------------------------------------------------------------------------
(* Reward calculator (src/game/rewards.py) and its copies in the scenes.   *)

per_question_reward(table) == 2 + table \div 4

speed_bonus(label) ==
  CASE label = "Slak" -> 0
    [] label = "Schildpad" -> 2
    [] label = "Haas" -> 4
    [] label = "Cheeta" -> 6
    [] OTHER -> 0

\* round() of Python: to nearest, ties to even; num >= 0, den > 0
RoundHalfEven(num, den) ==
  LET q == num \div den
      r == num % den
  IN  IF 2 * r < den THEN q
      ELSE IF 2 * r > den THEN q + 1
      ELSE IF q % 2 = 0 THEN q ELSE q + 1

\* time_bonus_from_ratio(num / den)
time_bonus_from_ratio(num, den) ==
  LET cnum == IF num < 0 THEN 0 ELSE IF num > den THEN den ELSE num
  IN  RoundHalfEven(cnum * TIME_BONUS_SCALE, den)

----------------------------------------------------------------------------
(* App: profiles, coins, score repository.                                 *)

ProfileIds == {"anna", "bram"}

\* adjust_active_coins without the max(0, ...) of app.py:212
adjust_active_coins_unclamped(a, delta) ==
  IF a.active_profile = "none" THEN a
  ELSE LET pid == a.active_profile
           coins == a.profile_coins[pid] + delta
       IN  [a EXCEPT !.profile_coins[pid] = coins,
                     !.profiles[a.active_profile_index + 1] = pid]

\* App.adjust_active_coins
adjust_active_coins(a, delta) ==
  IF a.active_profile = "none" THEN a
  ELSE LET pid == a.active_profile
           coins == Max(0, a.profile_coins[pid] + delta)
       IN  [a EXCEPT !.profile_coins[pid] = coins,
                     !.profiles[a.active_profile_index + 1] = pid]

\* dict.get(profile_id, [])
get_test_results(a, pid) ==
  IF pid \in DOMAIN a.scores THEN a.scores[pid] ELSE <<>>

\* record_test replacing the list of the profile by the new record
record_test_overwrites(a, result) ==
  [a EXCEPT !.scores = (result.profile_id :> <<result>>) @@ a.scores]

\* ScoreRepository.record_test
record_test(a, result) ==
  LET pid == result.profile_id
  IN  [a EXCEPT !.scores =
         (pid :> Append(get_test_results(a, pid), result)) @@ a.scores]

----------------------------------------------------------------------------
(* Test session (src/game/scenes/test_session.py).                         *)

NoConfig == [tables |-> <<>>, question_count |-> 0, time_limit_seconds |-> 0]

InSeq(x, s) == \E i \in 1..Len(s) : s[i] = x

ZeroStat == [questions |-> 0, correct |-> 0, incorrect |-> 0, total_time |-> 0]

\* defaultdict lookup
StatOf(stats, table) ==
  IF table \in DOMAIN stats THEN stats[table] ELSE ZeroStat

\* TestSessionScene.__init__
TestSession_init(config, speed_label, questions) ==
  [config |-> config,
   speed_label |-> speed_label,
   questions |-> questions,
   current_index |-> 0,
   input_value |-> <<>>,
   correct |-> 0,
   incorrect |-> 0,
   history |-> <<>>,
   elapsed |-> 0,
   feedback_message |-> "start",
   feedback_timer |-> FEEDBACK_START,
   finished |-> FALSE,
   question_start_time |-> 0,
   table_stats |-> <<>>,
   session_coins |-> 0,
   coin_delta |-> 0,
   back_button_rect |-> FALSE]

NoTestSession == TestSession_init(NoConfig, "", <<>>)

\* one slot of _generate_questions with both operands drawn from the range
SlotQuestions_any_operands(tables) ==
  [left : Operands, right : Operands]

\* one slot of _generate_questions: Question(table, right) or Question(right, table)
SlotQuestions(tables) ==
  {[left |-> tables[i], right |-> r] : i \in 1..Len(tables), r \in Operands}
  \cup
  {[left |-> r, right |-> tables[i]] : i \in 1..Len(tables), r \in Operands}

\* the lists _generate_questions can return (the shuffle permutes a list of
\* independent slots, so every list of slot questions is possible)
GeneratedQuestions(config) ==
  [1..config.question_count -> SlotQuestions(config.tables)]

Answer(q) == q.left * q.right

\* _determine_table falling back to the left operand
TestSession_determine_table_fallback_left(config, q) ==
  IF InSeq(q.left, config.tables) THEN q.left
  ELSE IF InSeq(q.right, config.tables) THEN q.right
  ELSE q.left

\* TestSessionScene._determine_table
TestSession_determine_table(config, q) ==
  IF InSeq(q.left, config.tables) THEN q.left
  ELSE IF InSeq(q.right, config.tables) THEN q.right
  ELSE Max(q.left, q.right)

\* TestSessionScene._per_question_reward
TestSession_per_question_reward(table) == 2 + table \div 4

\* _record_table_stat counting the correct answers only
TestSession_record_table_stat_correct_only(s, q, is_correct, answer_time) ==
  LET table == TestSession_determine_table(s.config, q)
      old == StatOf(s.table_stats, table)
      new == [questions |-> old.questions + 1,
              total_time |-> old.total_time + answer_time,
              correct |-> old.correct + (IF is_correct THEN 1 ELSE 0),
              incorrect |-> old.incorrect]
  IN  [s EXCEPT !.table_stats = (table :> new) @@ s.table_stats]

\* TestSessionScene._record_table_stat
TestSession_record_table_stat(s, q, is_correct, answer_time) ==
  LET table == TestSession_determine_table(s.config, q)
      old == StatOf(s.table_stats, table)
      new == [questions |-> old.questions + 1,
              total_time |-> old.total_time + answer_time,
              correct |-> old.correct + (IF is_correct THEN 1 ELSE 0),
              incorrect |-> old.incorrect + (IF is_correct THEN 0 ELSE 1)]
  IN  [s EXCEPT !.table_stats = (table :> new) @@ s.table_stats]

\* the loop of _calculate_reward over self.history
RECURSIVE HistoryTotal(_, _)
HistoryTotal(config, history) ==
  IF history = <<>> THEN 0
  ELSE LET h == history[Len(history)]
           per == TestSession_per_question_reward(
                    TestSession_determine_table(config, h.question))
       IN  HistoryTotal(config, SubSeq(history, 1, Len(history) - 1))
             + (IF h.is_correct THEN per ELSE 0 - 2)

\* TestResult.accuracy, the quotient correct / answered as a fraction
accuracy(result) ==
  IF result.answered # 0
  THEN [num |-> result.correct, den |-> result.answered]
  ELSE [num |-> 0, den |-> 1]

\* TestResult.remaining_seconds
remaining_seconds(result) ==
  Max(result.time_limit_seconds - result.elapsed_seconds, 0)

\* the time bonus of _calculate_reward: int(ratio * 8)
TestSession_time_bonus(result) ==
  IF result.time_limit_seconds # 0
  THEN (remaining_seconds(result) * 8) \div result.time_limit_seconds
  ELSE 0

\* _calculate_reward with the clamp applied after the bonus is added
TestSession_calculate_reward_clamp_last(s, result) ==
  Max(0, HistoryTotal(s.config, s.history)
           + Max(0, TestSession_time_bonus(result) + speed_bonus(s.speed_label)))

\* TestSessionScene._calculate_reward
TestSession_calculate_reward(s, result) ==
  Max(0, HistoryTotal(s.config, s.history))
    + Max(0, TestSession_time_bonus(result) + speed_bonus(s.speed_label))

\* the result with the clock of the session as elapsed_seconds, without the
\* min(..., time_limit_seconds)
TestSession_result_raw_elapsed(a, s) ==
  [profile_id |-> a.active_profile,
   tables |-> s.config.tables,
   question_count |-> s.config.question_count,
   answered |-> Len(s.history),
   correct |-> s.correct,
   incorrect |-> s.incorrect,
   time_limit_seconds |-> s.config.time_limit_seconds,
   elapsed_seconds |-> s.elapsed,
   table_stats |-> s.table_stats]

\* the TestResult built by _finish_session
TestSession_result(a, s) ==
  [profile_id |-> a.active_profile,
   tables |-> s.config.tables,
   question_count |-> s.config.question_count,
   answered |-> Len(s.history),
   correct |-> s.correct,
   incorrect |-> s.incorrect,
   time_limit_seconds |-> s.config.time_limit_seconds,
   elapsed_seconds |-> Min(s.elapsed, s.config.time_limit_seconds),
   table_stats |-> s.table_stats]

----------------------------------------------------------------------------
(* The handlers below act on the world w = [app, scene, ts, ps, summary]:  *)
(* a handler of one scene object can replace the active scene              *)
(* (App.change_scene) and change the app while the frame goes on.          *)

\* _finish_session without the finished flag and the change of scene, so that
\* a session can be finished again
TestSession_finish_session_keep_running(w, time_up) ==
  LET result == TestSession_result(w.app, w.ts)
      delta == TestSession_calculate_reward(w.ts, result)
      a1 == IF delta # 0 THEN adjust_active_coins(w.app, delta) ELSE w.app
  IN  [w EXCEPT !.ts.coin_delta = delta, !.app = record_test(a1, result)]

\* TestSessionScene._finish_session
TestSession_finish_session(w, time_up) ==
  IF w.ts.finished THEN w
  ELSE LET s1 == [w.ts EXCEPT !.finished = TRUE]
           result == TestSession_result(w.app, s1)
           delta == TestSession_calculate_reward(s1, result)
           a1 == IF delta # 0 THEN adjust_active_coins(w.app, delta) ELSE w.app
           a2 == record_test(a1, result)
       IN  [w EXCEPT !.ts = [s1 EXCEPT !.coin_delta = delta],
                     !.app = a2,
                     !.scene = "test_summary",
                     !.summary = [result |-> result,
                                  time_up |-> time_up,
                                  coin_delta |-> delta,
                                  total_coins |-> a2.profile_coins[a2.active_profile]]]

\* the accepting part of _submit_answer with the retry rule of the practice
\* session: a wrong answer keeps the question
TestSession_accept_answer_retry_wrong(w, question, guess) ==
  LET s == w.ts
      is_correct == guess = Answer(question)
      answer_time == Max(s.elapsed - s.question_start_time, 0)
      s1 == [s EXCEPT !.history = Append(@, [question |-> question,
                                             input |-> s.input_value,
                                             is_correct |-> is_correct])]
      s2 == TestSession_record_table_stat(s1, question, is_correct, answer_time)
      s3 == [s2 EXCEPT !.correct = @ + (IF is_correct THEN 1 ELSE 0),
                       !.incorrect = @ + (IF is_correct THEN 0 ELSE 1),
                       !.feedback_message = IF is_correct THEN "correct" ELSE "wrong",
                       !.feedback_timer = IF is_correct THEN FEEDBACK_CORRECT
                                          ELSE FEEDBACK_WRONG,
                       !.input_value = <<>>,
                       !.current_index = @ + (IF is_correct THEN 1 ELSE 0),
                       !.question_start_time = s.elapsed]
  IN  IF s3.current_index >= Len(s3.questions)
      THEN TestSession_finish_session([w EXCEPT !.ts = s3], FALSE)
      ELSE [w EXCEPT !.ts = s3]

\* the coin change of an answer with the whole reward as the penalty
TestSession_answer_delta_full_penalty(is_correct, per_reward) ==
  IF is_correct THEN per_reward ELSE 0 - Max(2, per_reward)

\* the coin change of an answer in _submit_answer
TestSession_answer_delta(is_correct, per_reward) ==
  IF is_correct THEN per_reward ELSE 0 - Max(2, per_reward \div 2)

\* TestSessionScene._submit_answer from "is_correct = ..." on: the answer is
\* an integer and is recorded
TestSession_accept_answer(w, question, guess) ==
  LET s == w.ts
      is_correct == guess = Answer(question)
      answer_time == Max(s.elapsed - s.question_start_time, 0)
      s1 == [s EXCEPT !.history = Append(@, [question |-> question,
                                             input |-> s.input_value,
                                             is_correct |-> is_correct])]
      s2 == TestSession_record_table_stat(s1, question, is_correct, answer_time)
      table == TestSession_determine_table(s.config, question)
      per_reward == TestSession_per_question_reward(table)
      delta == TestSession_answer_delta(is_correct, per_reward)
      s3 == IF delta # 0
            THEN [s2 EXCEPT !.session_coins = Max(0, @ + delta)]
            ELSE s2
      s4 == IF is_correct
            THEN [s3 EXCEPT !.correct = @ + 1,
                            !.feedback_message = "correct",
                            !.feedback_timer = FEEDBACK_CORRECT]
            ELSE [s3 EXCEPT !.incorrect = @ + 1,
                            !.feedback_message = "wrong",
                            !.feedback_timer = FEEDBACK_WRONG]
      s5 == [s4 EXCEPT !.input_value = <<>>,
                       !.current_index = @ + 1,
                       !.question_start_time = s.elapsed]
      w5 == [w EXCEPT !.ts = s5]
  IN  IF s5.current_index >= Len(s5.questions)
      THEN TestSession_finish_session(w5, FALSE)
      ELSE w5

\* _submit_answer counting a rejected non-integer input as a wrong answer
TestSession_submit_answer_counts_rejects(w) ==
  LET s == w.ts IN
  IF s.current_index >= Len(s.questions) THEN w
  ELSE IF s.input_value = <<>>
  THEN [w EXCEPT !.ts.feedback_message = "enter_answer",
                 !.ts.feedback_timer = FEEDBACK_REJECT]
  ELSE
    LET question == s.questions[s.current_index + 1]
        guess == ParseInt(s.input_value)
    IN  IF ~guess.ok
        THEN [w EXCEPT !.ts.feedback_message = "digits_only",
                       !.ts.feedback_timer = FEEDBACK_REJECT,
                       !.ts.incorrect = @ + 1,
                       !.ts.input_value = <<>>]
        ELSE TestSession_accept_answer(w, question, guess.value)

\* TestSessionScene._submit_answer
TestSession_submit_answer(w) ==
  LET s == w.ts IN
  IF s.current_index >= Len(s.questions) THEN w
  ELSE IF s.input_value = <<>>
  THEN [w EXCEPT !.ts.feedback_message = "enter_answer",
                 !.ts.feedback_timer = FEEDBACK_REJECT]
  ELSE
    LET question == s.questions[s.current_index + 1]
        guess == ParseInt(s.input_value)
    IN  IF ~guess.ok
        THEN [w EXCEPT !.ts.feedback_message = "digits_only",
                       !.ts.feedback_timer = FEEDBACK_REJECT,
                       !.ts.input_value = <<>>]
        ELSE TestSession_accept_answer(w, question, guess.value)

\* on_back storing the result of the abandoned session
TestSession_on_back_records(w) ==
  [w EXCEPT !.scene = "test_setup",
            !.app = record_test(w.app, TestSession_result(w.app, w.ts))]

\* TestSessionScene.on_back
TestSession_on_back(w) == [w EXCEPT !.scene = "test_setup"]

\* one iteration of the event loop of TestSessionScene.handle_events;
\* returned = TRUE when the handler returns from inside the loop
TestSession_handle_event(w, e) ==
  IF e = "CLICK_BACK"
  THEN IF w.ts.back_button_rect
       THEN [w |-> TestSession_on_back(w), returned |-> TRUE]
       ELSE [w |-> w, returned |-> FALSE]
  ELSE IF e = "K_ESCAPE"
  THEN [w |-> [w EXCEPT !.scene = "menu"], returned |-> TRUE]
  ELSE IF e = "K_BACKSPACE"
  THEN [w |-> [w EXCEPT !.ts.input_value =
                 IF @ = <<>> THEN <<>> ELSE SubSeq(@, 1, Len(@) - 1)],
        returned |-> FALSE]
  ELSE IF e = "K_RETURN"
  THEN [w |-> TestSession_submit_answer(w), returned |-> FALSE]
  ELSE IF e \in DigitKeys /\ Len(w.ts.input_value) < MAX_INPUT_LEN
  THEN [w |-> [w EXCEPT !.ts.input_value = Append(@, e)], returned |-> FALSE]
  ELSE [w |-> w, returned |-> FALSE]

\* the event loop of TestSessionScene.handle_events over every batch of at most
\* n events: rs holds the results of the shorter batches, and a result that
\* returned from the loop takes no further event
RECURSIVE TestSession_event_loop(_, _)
TestSession_event_loop(rs, n) ==
  IF n = 0 THEN rs
  ELSE TestSession_event_loop(
         rs \cup {TestSession_handle_event(r.w, e) :
                    r \in {x \in rs : ~x.returned}, e \in Events},
         n - 1)

\* TestSessionScene.handle_events: the worlds it can leave behind, one for
\* each batch of at most MaxBatch events
TestSession_handle_events(w) ==
  IF w.ts.finished THEN {w}
  ELSE {r.w : r \in TestSession_event_loop({[w |-> w, returned |-> FALSE]}, MaxBatch)}

\* the feedback timer of Scene.update
FeedbackTick(s, delta_time, cleared) ==
  IF s.feedback_timer > 0
  THEN LET t == Max(s.feedback_timer - delta_time, 0)
       IN  [s EXCEPT !.feedback_timer = t,
                     !.feedback_message = IF t = 0 THEN cleared ELSE @]
  ELSE s

\* update with a clock that stands still: elapsed is not advanced
TestSession_update_frozen_clock(w, delta_time) ==
  IF w.ts.finished THEN w
  ELSE LET remaining == w.ts.config.time_limit_seconds - w.ts.elapsed
           w2 == IF remaining <= 0 THEN TestSession_finish_session(w, TRUE) ELSE w
       IN  [w2 EXCEPT !.ts = FeedbackTick(w2.ts, delta_time, "")]

\* TestSessionScene.update
TestSession_update(w, delta_time) ==
  IF w.ts.finished THEN w
  ELSE LET w1 == [w EXCEPT !.ts.elapsed = @ + delta_time]
           remaining == w1.ts.config.time_limit_seconds - w1.ts.elapsed
           w2 == IF remaining <= 0 THEN TestSession_finish_session(w1, TRUE) ELSE w1
       IN  [w2 EXCEPT !.ts = FeedbackTick(w2.ts, delta_time, "")]

\* TestSessionScene.render: _draw_back_button stores the button rectangle
TestSession_render(w) == [w EXCEPT !.ts.back_button_rect = TRUE]

----------------------------------------------------------------------------
(* Practice session (src/game/scenes/practice_session.py).                 *)

\* PracticeSessionScene._determine_table
PracticeSession_determine_table(config, q) ==
  IF InSeq(q.left, config.tables) THEN q.left
  ELSE IF InSeq(q.right, config.tables) THEN q.right
  ELSE q.left

\* the stats _select_table leaves behind: reading self.table_stats[table]
\* creates the zero entry of every configured table (defaultdict)
TouchStats(stats, tables) ==
  [t \in DOMAIN stats \cup {tables[i] : i \in 1..Len(tables)} |-> StatOf(stats, t)]

\* the weight with 1.0 taken off for every correct answer
WeightOf_less_per_correct(stat) ==
  LET a == stat.questions
      raw == IF a # 0
             THEN [num |-> 8 * a + 20 * a * stat.incorrect + stat.total_time
                             - 8 * a * stat.correct,
                   den |-> 8 * a]
             ELSE [num |-> 2 + 5 * stat.incorrect, den |-> 2]
  IN  IF 10 * raw.num >= raw.den THEN raw ELSE [num |-> 1, den |-> 10]

\* the weight of _select_table as a fraction num / den; with time counted in
\* half seconds, 1.0 + incorrect * 2.5 + avg_time / 4.0 is
\* (8 a + 20 a incorrect + total_time) / (8 a) for a = attempts > 0
WeightOf(stat) ==
  LET a == stat.questions
      raw == IF a # 0
             THEN [num |-> 8 * a + 20 * a * stat.incorrect + stat.total_time,
                   den |-> 8 * a]
             ELSE [num |-> 2 + 5 * stat.incorrect, den |-> 2]
  IN  \* max(weight, 0.1)
      IF 10 * raw.num >= raw.den THEN raw ELSE [num |-> 1, den |-> 10]

RECURSIVE DenProduct(_)
DenProduct(ws) ==
  IF ws = <<>> THEN 1 ELSE Head(ws).den * DenProduct(Tail(ws))

RECURSIVE SumTo(_, _)
SumTo(xs, n) == IF n = 0 THEN 0 ELSE xs[n] + SumTo(xs, n - 1)

\* _select_table with the weight 1.0 for every table
PracticeSession_select_table_unweighted(stats, tables, k) ==
  LET hits == {i \in 1..Len(tables) : k * Len(tables) <= DrawGrid * i}
  IN  tables[CHOOSE i \in hits : \A j \in hits : i <= j]

\* PracticeSessionScene._select_table; the draw random.uniform(0, total_weight)
\* is r = total_weight * k / DrawGrid for k in 0..DrawGrid, and
\* random.choice(tables) of the zero-weight fallback picks by k as well
PracticeSession_select_table(stats, tables, k) ==
  LET ws == [i \in 1..Len(tables) |-> WeightOf(StatOf(stats, tables[i]))]
      d == DenProduct(ws)
      scaled == [i \in 1..Len(tables) |-> ws[i].num * (d \div ws[i].den)]
      total_weight == SumTo(scaled, Len(tables))
      hits == {i \in 1..Len(tables) : k * total_weight <= DrawGrid * SumTo(scaled, i)}
  IN  IF total_weight = 0 THEN tables[(k % Len(tables)) + 1]
      ELSE IF hits = {} THEN tables[Len(tables)]
      ELSE tables[CHOOSE i \in hits : \A j \in hits : i <= j]

\* the random draws of one _create_question call
Draws == [k : 0..DrawGrid, right : Operands]

NoDraw == [k |-> 0, right |-> CHOOSE r \in Operands : TRUE]

\* the question built by PracticeSessionScene._create_question
PracticeSession_create_question(stats, tables, draw) ==
  [left |-> PracticeSession_select_table(stats, tables, draw.k), right |-> draw.right]

\* PracticeSessionScene.__init__; draw holds the random draws of its
\* _create_question call
PracticeSession_init(config, draw) ==
  [config |-> config,
   table_stats |-> TouchStats(<<>>, config.tables),
   history |-> <<>>,
   elapsed |-> 0,
   question_start_time |-> 0,
   feedback_message |-> "initial",
   feedback_timer |-> 0,
   input_value |-> <<>>,
   total_attempts |-> 0,
   correct_answers |-> 0,
   streak |-> 0,
   current_question |-> PracticeSession_create_question(<<>>, config.tables, draw),
   awaiting_retry |-> FALSE,
   back_button_rect |-> FALSE]

NoPracticeSession ==
  [PracticeSession_init([tables |-> <<0>>], NoDraw) EXCEPT !.config = [tables |-> <<>>]]

\* PracticeSessionScene._next_question with _create_question
PracticeSession_next_question(s, draw) ==
  [s EXCEPT !.table_stats = TouchStats(@, s.config.tables),
            !.current_question =
               PracticeSession_create_question(s.table_stats, s.config.tables, draw),
            !.question_start_time = s.elapsed,
            !.awaiting_retry = FALSE]

\* the accepting part of _submit_answer with _next_question on both branches
PracticeSession_accept_answer_advance_always(w, question, guess, next) ==
  LET s == w.ps
      answer_time == Max(s.elapsed - s.question_start_time, 0)
      is_correct == guess = Answer(question)
      s1 == [s EXCEPT !.total_attempts = @ + 1,
                      !.correct_answers = @ + (IF is_correct THEN 1 ELSE 0),
                      !.history = Append(@, [question |-> question,
                                             input |-> s.input_value,
                                             is_correct |-> is_correct,
                                             answer_time |-> answer_time])]
  IN  [w EXCEPT !.ps = [PracticeSession_next_question(s1, next)
                          EXCEPT !.input_value = <<>>]]

\* the accepting part of _submit_answer with the per-answer coin amount of the
\* test session applied to the balance of the active profile
PracticeSession_accept_answer_pays(w, question, guess, next) ==
  LET s == w.ps
      answer_time == Max(s.elapsed - s.question_start_time, 0)
      is_correct == guess = Answer(question)
      table == PracticeSession_determine_table(s.config, question)
      old == StatOf(s.table_stats, table)
      new == [questions |-> old.questions + 1,
              total_time |-> old.total_time + answer_time,
              correct |-> old.correct + (IF is_correct THEN 1 ELSE 0),
              incorrect |-> old.incorrect + (IF is_correct THEN 0 ELSE 1)]
      s1 == [s EXCEPT !.total_attempts = @ + 1,
                      !.table_stats = (table :> new) @@ @,
                      !.history = Append(@, [question |-> question,
                                             input |-> s.input_value,
                                             is_correct |-> is_correct,
                                             answer_time |-> answer_time])]
      s2 == IF is_correct
            THEN PracticeSession_next_question(
                   [s1 EXCEPT !.correct_answers = @ + 1,
                              !.streak = @ + 1,
                              !.feedback_message = "correct",
                              !.feedback_timer = FEEDBACK_CORRECT],
                   next)
            ELSE [s1 EXCEPT !.streak = 0,
                            !.feedback_message = "wrong",
                            !.feedback_timer = FEEDBACK_WRONG,
                            !.awaiting_retry = TRUE]
  IN  [w EXCEPT !.ps = [s2 EXCEPT !.input_value = <<>>],
                !.app = adjust_active_coins(w.app,
                          IF is_correct THEN per_question_reward(table)
                          ELSE 0 - Max(2, per_question_reward(table) \div 2))]

\* PracticeSessionScene._submit_answer from "answer_time = ..." on: the
\* answer is an integer and is recorded; next holds the random draws of
\* _create_question, made if the answer is correct
PracticeSession_accept_answer(w, question, guess, next) ==
  LET s == w.ps
      answer_time == Max(s.elapsed - s.question_start_time, 0)
      is_correct == guess = Answer(question)
      table == PracticeSession_determine_table(s.config, question)
      old == StatOf(s.table_stats, table)
      new == [questions |-> old.questions + 1,
              total_time |-> old.total_time + answer_time,
              correct |-> old.correct + (IF is_correct THEN 1 ELSE 0),
              incorrect |-> old.incorrect + (IF is_correct THEN 0 ELSE 1)]
      s1 == [s EXCEPT !.total_attempts = @ + 1,
                      !.table_stats = (table :> new) @@ @,
                      !.history = Append(@, [question |-> question,
                                             input |-> s.input_value,
                                             is_correct |-> is_correct,
                                             answer_time |-> answer_time])]
      s2 == IF is_correct
            THEN PracticeSession_next_question(
                   [s1 EXCEPT !.correct_answers = @ + 1,
                              !.streak = @ + 1,
                              !.feedback_message = "correct",
                              !.feedback_timer = FEEDBACK_CORRECT],
                   next)
            ELSE [s1 EXCEPT !.streak = 0,
                            !.feedback_message = "wrong",
                            !.feedback_timer = FEEDBACK_WRONG,
                            !.awaiting_retry = TRUE]
  IN  [w EXCEPT !.ps = [s2 EXCEPT !.input_value = <<>>]]

\* PracticeSessionScene._submit_answer
PracticeSession_submit_answer(w, next) ==
  LET s == w.ps IN
  IF s.input_value = <<>>
  THEN [w EXCEPT !.ps.feedback_message = "enter_answer",
                 !.ps.feedback_timer = FEEDBACK_REJECT]
  ELSE
    LET question == s.current_question
        guess == ParseInt(s.input_value)
    IN  IF ~guess.ok
        THEN [w EXCEPT !.ps.feedback_message = "digits_only",
                       !.ps.feedback_timer = FEEDBACK_REJECT,
                       !.ps.input_value = <<>>]
        ELSE PracticeSession_accept_answer(w, question, guess.value, next)

\* on_back storing the practice session as a test result
PracticeSession_on_back_records(w) ==
  [w EXCEPT !.scene = "practice_summary",
            !.app = record_test(w.app,
                      [profile_id |-> w.app.active_profile,
                       tables |-> w.ps.config.tables,
                       question_count |-> w.ps.total_attempts,
                       answered |-> w.ps.total_attempts,
                       correct |-> w.ps.correct_answers,
                       incorrect |-> w.ps.total_attempts - w.ps.correct_answers,
                       time_limit_seconds |-> 0,
                       elapsed_seconds |-> w.ps.elapsed,
                       table_stats |-> w.ps.table_stats]),
            !.summary = [total_attempts |-> w.ps.total_attempts,
                         correct |-> w.ps.correct_answers,
                         streak |-> w.ps.streak,
                         table_stats |-> w.ps.table_stats,
                         history |-> w.ps.history,
                         config |-> w.ps.config]]

\* PracticeSessionScene.on_back: the stop signal
PracticeSession_on_back(w) ==
  [w EXCEPT !.scene = "practice_summary",
            !.summary = [total_attempts |-> w.ps.total_attempts,
                         correct |-> w.ps.correct_answers,
                         streak |-> w.ps.streak,
                         table_stats |-> w.ps.table_stats,
                         history |-> w.ps.history,
                         config |-> w.ps.config]]

\* one iteration of the event loop of PracticeSessionScene.handle_events
PracticeSession_handle_event(w, e, next) ==
  IF e = "CLICK_BACK"
  THEN IF w.ps.back_button_rect
       THEN [w |-> PracticeSession_on_back(w), returned |-> TRUE]
       ELSE [w |-> w, returned |-> FALSE]
  ELSE IF e = "K_ESCAPE"
  THEN [w |-> PracticeSession_on_back(w), returned |-> TRUE]
  ELSE IF e = "K_BACKSPACE"
  THEN [w |-> [w EXCEPT !.ps.input_value =
                 IF @ = <<>> THEN <<>> ELSE SubSeq(@, 1, Len(@) - 1)],
        returned |-> FALSE]
  ELSE IF e = "K_RETURN"
  THEN [w |-> PracticeSession_submit_answer(w, next), returned |-> FALSE]
  ELSE IF e \in DigitKeys /\ Len(w.ps.input_value) < MAX_INPUT_LEN
  THEN [w |-> [w EXCEPT !.ps.input_value = Append(@, e)], returned |-> FALSE]
  ELSE [w |-> w, returned |-> FALSE]

\* the random draws an event can consume: only _submit_answer draws
DrawsFor(e) == IF e = "K_RETURN" THEN Draws ELSE {NoDraw}

\* the event loop of PracticeSessionScene.handle_events over every batch of
\* at most n events and every random draw made while handling them
RECURSIVE PracticeSession_event_loop(_, _)
PracticeSession_event_loop(rs, n) ==
  IF n = 0 THEN rs
  ELSE PracticeSession_event_loop(
         rs \cup UNION {{PracticeSession_handle_event(r.w, e, next) : next \in DrawsFor(e)} :
                          r \in {x \in rs : ~x.returned}, e \in Events},
         n - 1)

\* PracticeSessionScene.handle_events: the worlds it can leave behind, one
\* for each batch of at most MaxBatch events and each sequence of draws
PracticeSession_handle_events(w) ==
  {r.w : r \in PracticeSession_event_loop({[w |-> w, returned |-> FALSE]}, MaxBatch)}

\* PracticeSessionScene.update
PracticeSession_update(w, delta_time) ==
  [w EXCEPT !.ps = FeedbackTick([w.ps EXCEPT !.elapsed = @ + delta_time],
                                delta_time, "initial")]

\* PracticeSessionScene.render: _draw_back_button stores the button rectangle
PracticeSession_render(w) == [w EXCEPT !.ps.back_button_rect = TRUE]

----------------------------------------------------------------------------
(* Frame loop (App.run) and the scenes around a test session.              *)

World == [app |-> app, scene |-> scene, ts |-> ts, ps |-> ps, summary |-> summary]

Becomes(w) ==
  /\ app' = w.app
  /\ scene' = w.scene
  /\ ts' = w.ts
  /\ ps' = w.ps
  /\ summary' = w.summary
  /\ UNCHANGED <<last, setup>>

NoSummary == [result |-> <<>>, time_up |-> FALSE, coin_delta |-> 0, total_coins |-> 0]

SpeedLabels == {"Slak", "Haas"}

\* the configurations TestSetupScene._start_test can build from a non-empty
\* selection, scaled down to the bounds
TestConfigs ==
  {[tables |-> <<1, 4>>, question_count |-> n, time_limit_seconds |-> limit] :
     n \in 1..MaxQuestions, limit \in TimeLimits}

\* App.change_scene(TestSessionScene, config=..., speed_label=...)
StartTestSession(w, config, speed_label, questions) ==
  [w EXCEPT !.scene = "test",
            !.ts = TestSession_init(config, speed_label, questions)]

\* self._scene.update(dt); self._scene.render(self.screen) of App.run, for the
\* scene that is active after the events were handled
UpdateAndRender(w, dt) ==
  IF w.scene = "test" THEN TestSession_render(TestSession_update(w, dt))
  ELSE IF w.scene = "practice" THEN PracticeSession_render(PracticeSession_update(w, dt))
  ELSE w

\* MainMenuScene.activate_option, option "test"
MenuOpenTestSetup ==
  /\ scene = "menu"
  /\ scene' = "test_setup"
  /\ ts' = NoTestSession
  /\ summary' = NoSummary
  /\ UNCHANGED <<app, ps, last, setup>>

\* TestSetupScene._handle_back_action
TestSetupBack ==
  /\ scene = "test_setup"
  /\ scene' = "menu"
  /\ UNCHANGED <<app, ts, ps, summary, last, setup>>

\* a run is explored up to its first completed test: a test is started only
\* while the active profile has no stored result
CanStartTest ==
  get_test_results(app, app.active_profile) = <<>>

\* a frame of TestSetupScene in which _start_test runs with a non-empty selection
TestSetupStart ==
  /\ scene = "test_setup"
  /\ CanStartTest
  /\ \E config \in TestConfigs, speed_label \in SpeedLabels, dt \in FrameTimes :
       \E questions \in GeneratedQuestions(config) :
         Becomes(UpdateAndRender(
                   StartTestSession(World, config, speed_label, questions), dt))

\* a frame of App.run while the test session is the active scene
TestSessionFrame ==
  /\ scene = "test"
  /\ \E w2 \in TestSession_handle_events(World), dt \in FrameTimes :
       Becomes(UpdateAndRender(w2, dt))

\* a frame of TestSummaryScene with K_ESCAPE, K_BACKSPACE or a click on back
TestSummaryBack ==
  /\ scene = "test_summary"
  /\ scene' = "menu"
  /\ UNCHANGED <<app, ts, ps, summary, last, setup>>

\* the configurations PracticeSetupScene._start_practice can build
PracticeConfigs == {[tables |-> <<1, 4>>]}

\* a frame of PracticeSetupScene in which _start_practice runs with a
\* non-empty selection
PracticeSetupStart ==
  /\ scene = "practice_setup"
  /\ \E config \in PracticeConfigs, draw \in Draws, dt \in FrameTimes :
       Becomes(UpdateAndRender(
                 [World EXCEPT !.scene = "practice",
                               !.ps = PracticeSession_init(config, draw),
                               !.summary = NoSummary], dt))

\* a frame of App.run while the practice session is the active scene
PracticeSessionFrame ==
  /\ scene = "practice"
  /\ \E dt \in {t \in FrameTimes : ps.elapsed + t <= MaxPracticeTime} :
       \E w2 \in PracticeSession_handle_events(World) :
         Becomes(UpdateAndRender(w2, dt))

\* a frame of PracticeSummaryScene with K_RETURN or K_SPACE: _restart_practice
PracticeSummaryRestart ==
  /\ scene = "practice_summary"
  /\ \E draw \in Draws, dt \in FrameTimes :
       Becomes(UpdateAndRender(
                 [World EXCEPT !.scene = "practice",
                               !.ps = PracticeSession_init(summary.config, draw),
                               !.summary = NoSummary], dt))

\* a frame of PracticeSummaryScene with K_ESCAPE or K_BACKSPACE
PracticeSummaryBack ==
  /\ scene = "practice_summary"
  /\ scene' = "menu"
  /\ ps' = NoPracticeSession
  /\ summary' = NoSummary
  /\ UNCHANGED <<app, ts, last, setup>>

\* a result stored by an earlier run of the program
StoredResult(pid) ==
  [profile_id |-> pid, tables |-> <<4>>, question_count |-> 1, answered |-> 1,
   correct |-> 1, incorrect |-> 0, time_limit_seconds |-> 3,
   elapsed_seconds |-> 1,
   table_stats |-> (4 :> [questions |-> 1, correct |-> 1, incorrect |-> 0,
                          total_time |-> 1])]

InitialScores == {("bram" :> <<StoredResult("bram")>>)}

\* no setup scene has been created
NoSetup ==
  [selected_tables |-> {}, selected_speed_index |-> 0,
   selected_question_index |-> 0, feedback_message |-> "",
   feedback_timer |-> 0]

NoCall == [op |-> "none", delta |-> 0, before |-> 0]

\* App.__init__ with two stored profiles: the first one is active
InitApp ==
  /\ \E coins \in 0..MaxInitCoins, scores \in InitialScores :
       app = [profiles |-> <<"anna", "bram">>,
              profile_coins |-> ("anna" :> coins) @@ ("bram" :> MaxInitCoins),
              active_profile |-> "anna",
              active_profile_index |-> 0,
              scores |-> scores]
  /\ ts = NoTestSession
  /\ ps = NoPracticeSession
  /\ summary = NoSummary
  /\ last = NoCall
  /\ setup = NoSetup

\* the main menu after start-up, or the practice setup it leads to
Init ==
  /\ InitApp
  /\ scene \in {"menu", "practice_setup"}

Next ==
  \/ MenuOpenTestSetup
  \/ TestSetupBack
  \/ TestSetupStart
  \/ TestSessionFrame
  \/ TestSummaryBack
  \/ PracticeSetupStart
  \/ PracticeSessionFrame
  \/ PracticeSummaryRestart
  \/ PracticeSummaryBack

Spec == Init /\ [][Next]_vars

----------------------------------------------------------------------------
(* The test mode alone, with the frame loop of App.run running on: while   *)
(* the test session is the active scene, a frame is always taken again.    *)
(* FrameLoopRuns is weak fairness of TestSessionFrame written without      *)
(* ENABLED: while scene = "test" a frame can always be taken and advances  *)
(* elapsed, and the only steps taken from that scene are such frames.      *)

FrameLoopRuns ==
  []<>(scene # "test") \/ []<><<scene = "test">>_vars

TestInit ==
  /\ InitApp
  /\ scene = "menu"

TestNext ==
  \/ MenuOpenTestSetup
  \/ TestSetupBack
  \/ TestSetupStart
  \/ TestSessionFrame
  \/ TestSummaryBack

FairTestSpec == TestInit /\ [][TestNext]_vars /\ FrameLoopRuns

----------------------------------------------------------------------------
(* The coin adjustment entry point called with arbitrary deltas.           *)

\* MainMenuScene._handle_profile_click with App.set_active_profile
SelectProfile ==
  /\ \E i \in 1..Len(app.profiles) :
       app' = [app EXCEPT !.active_profile = app.profiles[i],
                          !.active_profile_index = i - 1]
  /\ last' = [op |-> "set_active_profile", delta |-> 0, before |-> 0]
  /\ UNCHANGED <<scene, ts, ps, summary, setup>>

\* a call of App.adjust_active_coins(delta)
AdjustActiveCoins ==
  /\ \E delta \in (0 - MaxDelta)..MaxDelta :
       /\ app.profile_coins[app.active_profile] + delta <= MaxCoins
       /\ app' = adjust_active_coins(app, delta)
       /\ last' = [op |-> "adjust_active_coins", delta |-> delta,
                   before |-> app.profile_coins[app.active_profile]]
  /\ UNCHANGED <<scene, ts, ps, summary, setup>>

CoinInit ==
  /\ InitApp
  /\ scene = "menu"

CoinNext ==
  \/ SelectProfile
  \/ AdjustActiveCoins

CoinSpec == CoinInit /\ [][CoinNext]_vars

----------------------------------------------------------------------------
(* The score repository and the profile and data actions of the settings   *)
(* scene (src/game/storage.py, src/game/scenes/settings_scene.py).         *)

\* results per profile the repository is filled with
MaxStored == 2

\* a stored result without a correct answer
FailedResult(pid) ==
  [profile_id |-> pid, tables |-> <<4>>, question_count |-> 1, answered |-> 1,
   correct |-> 0, incorrect |-> 1, time_limit_seconds |-> 3,
   elapsed_seconds |-> 2,
   table_stats |-> (4 :> [questions |-> 1, correct |-> 0, incorrect |-> 1,
                          total_time |-> 2])]

\* the results a finished test session of profile pid hands to record_test
ResultsOf(pid) == {StoredResult(pid), FailedResult(pid)}

\* the repository without a key: self._data = {}
EmptyScores == [p \in {} |-> <<>>]

\* ScoreRepository.clear_profile
clear_profile(a, profile_id) ==
  IF profile_id \in DOMAIN a.scores
  THEN [a EXCEPT !.scores =
          [p \in DOMAIN a.scores \ {profile_id} |-> a.scores[p]]]
  ELSE a

\* ScoreRepository.clear_all
clear_all(a) == [a EXCEPT !.scores = EmptyScores]

\* SettingsScene._handle_profile_action, action "reset_coins"
Settings_reset_coins(a) ==
  [a EXCEPT !.profile_coins[a.active_profile] = 0]

\* the action "delete_profile" without the call of clear_profile
Settings_delete_profile_keeps_scores(a) ==
  IF Len(a.profiles) <= 1 THEN a
  ELSE LET pid == a.active_profile
           rest == SelectSeq(a.profiles, LAMBDA p : p # pid)
       IN  [a EXCEPT !.profiles = rest,
                     !.active_profile_index = 0,
                     !.active_profile = rest[1],
                     !.profile_coins =
                        [p \in DOMAIN a.profile_coins \ {pid} |-> a.profile_coins[p]]]

\* SettingsScene._handle_profile_action, action "delete_profile"
Settings_delete_profile(a) ==
  IF Len(a.profiles) <= 1 THEN a
  ELSE LET pid == a.active_profile
           rest == SelectSeq(a.profiles, LAMBDA p : p # pid)
           a1 == [a EXCEPT !.profiles = rest,
                           !.active_profile_index = 0,
                           !.active_profile = rest[1],
                           !.profile_coins =
                              [p \in DOMAIN a.profile_coins \ {pid} |->
                                 a.profile_coins[p]]]
       IN  clear_profile(a1, pid)

\* SettingsScene._generate_profile_id: an identifier no profile has
GeneratedIds(a) == ProfileIds \ {a.profiles[i] : i \in 1..Len(a.profiles)}

\* _create_profile that leaves active_profile_index where it was
Settings_create_profile_stale_index(a, identifier) ==
  [a EXCEPT !.profiles = Append(@, identifier),
            !.active_profile = identifier,
            !.profile_coins = (identifier :> 0) @@ @]

\* SettingsScene._create_profile with the generated identifier
Settings_create_profile(a, identifier) ==
  [a EXCEPT !.profiles = Append(@, identifier),
            !.active_profile_index = Len(a.profiles),
            !.active_profile = identifier,
            !.profile_coins = (identifier :> 0) @@ @]

\* SettingsScene._handle_data_action, action "reset_scores"
Settings_reset_scores(a) == clear_profile(a, a.active_profile)

\* SettingsScene._handle_data_action, action "reset_all"
Settings_reset_all(a) == clear_all(a)

\* the call of a settings action or of the repository that made the state
Called(op, arg, purged) == [op |-> op, arg |-> arg, purged |-> purged]

\* TestSessionScene._finish_session storing the result of the active profile
RecordTest ==
  /\ Len(get_test_results(app, app.active_profile)) < MaxStored
  /\ \E result \in ResultsOf(app.active_profile) :
       /\ app' = record_test(app, result)
       /\ last' = [op |-> "record_test", arg |-> result.profile_id,
                   purged |-> 0, result |-> result]
  /\ UNCHANGED <<scene, ts, ps, summary, setup>>

SettingsDeleteProfile ==
  /\ app' = Settings_delete_profile(app)
  /\ last' = Called(IF Len(app.profiles) <= 1 THEN "delete_refused"
                    ELSE "delete_profile",
                    app.active_profile,
                    Len(get_test_results(app, app.active_profile)))
  /\ UNCHANGED <<scene, ts, ps, summary, setup>>

SettingsNewProfile ==
  /\ \E identifier \in GeneratedIds(app) :
       /\ app' = Settings_create_profile(app, identifier)
       /\ last' = Called("new_profile", identifier, 0)
  /\ UNCHANGED <<scene, ts, ps, summary, setup>>

SettingsResetScores ==
  /\ app' = Settings_reset_scores(app)
  /\ last' = Called("reset_scores", app.active_profile,
                    Len(get_test_results(app, app.active_profile)))
  /\ UNCHANGED <<scene, ts, ps, summary, setup>>

SettingsResetAll ==
  /\ app' = Settings_reset_all(app)
  /\ last' = Called("reset_all", "", Cardinality(DOMAIN app.scores))
  /\ UNCHANGED <<scene, ts, ps, summary, setup>>

SettingsResetCoins ==
  /\ app' = Settings_reset_coins(app)
  /\ last' = Called("reset_coins", app.active_profile, 0)
  /\ UNCHANGED <<scene, ts, ps, summary, setup>>

SettingsInit ==
  /\ InitApp
  /\ scene = "settings"

SettingsNext ==
  \/ SelectProfile
  \/ RecordTest
  \/ SettingsDeleteProfile
  \/ SettingsNewProfile
  \/ SettingsResetScores
  \/ SettingsResetAll

SettingsSpec == SettingsInit /\ [][SettingsNext]_vars

\* the coin operations of the application: the entry point and the reset
CoinAdminNext ==
  \/ SelectProfile
  \/ AdjustActiveCoins
  \/ SettingsResetCoins

CoinAdminSpec == CoinInit /\ [][CoinAdminNext]_vars

----------------------------------------------------------------------------
(* The progress overview (src/game/scenes/progress_overview.py).  The      *)
(* scene reads the score repository when it is constructed; the fields it  *)
(* fills are kept in last.  Accuracies and averages are fractions          *)
(* [num, den] with den > 0.                                                *)

\* results per profile the overview is opened with
MaxTests == 3

FracLess(x, y) == x.num * y.den < y.num * x.den

FracEq(x, y) == x.num * y.den = y.num * x.den

FracAdd(x, y) == [num |-> x.num * y.den + y.num * x.den, den |-> x.den * y.den]

\* list.sort: the stable sort of s, where before[i][j] says that the key of
\* s[i] sorts in front of the key of s[j]
StableSort(s, before) ==
  LET place(i) ==
        1 + Cardinality({j \in 1..Len(s) :
                           before[j][i] \/ (~before[i][j] /\ j < i)})
  IN  [k \in 1..Len(s) |-> s[CHOOSE i \in 1..Len(s) : place(i) = k]]

\* ProgressOverviewScene._parse_results: the payloads of the repository are
\* the dictionaries record_test stored, so none is skipped
ProgressOverview_parse_results(payloads) ==
  StableSort(payloads,
             [i \in 1..Len(payloads) |-> [j \in 1..Len(payloads) |->
                payloads[i].timestamp < payloads[j].timestamp]])

\* sum(result.accuracy for result in results)
RECURSIVE SumAccuracy(_)
SumAccuracy(results) ==
  IF results = <<>> THEN [num |-> 0, den |-> 1]
  ELSE FracAdd(SumAccuracy(SubSeq(results, 1, Len(results) - 1)),
               accuracy(results[Len(results)]))

\* max(result.timestamp for result in results)
LastPlayed(results) ==
  CHOOSE t \in {results[i].timestamp : i \in 1..Len(results)} :
    \A i \in 1..Len(results) : results[i].timestamp <= t

\* max(result.accuracy for result in results)
BestAccuracy(results) ==
  CHOOSE x \in {accuracy(results[i]) : i \in 1..Len(results)} :
    \A i \in 1..Len(results) : ~FracLess(x, accuracy(results[i]))

\* the ProfileSummary _build_leaderboard makes of a profile with results
ProgressOverview_profile_summary(a, pid) ==
  LET results == ProgressOverview_parse_results(get_test_results(a, pid))
      tests == Len(results)
      total_accuracy == SumAccuracy(results)
  IN  [profile_id |-> pid,
       tests |-> tests,
       average_accuracy |-> [num |-> total_accuracy.num,
                             den |-> total_accuracy.den * tests],
       best_accuracy |-> BestAccuracy(results),
       last_played |-> LastPlayed(results)]

\* the profiles of the application that have a result, in list order
ProfilesWithResults(a) ==
  SelectSeq(a.profiles, LAMBDA pid : get_test_results(a, pid) # <<>>)

\* _build_leaderboard sorting by (tests, average_accuracy)
ProgressOverview_build_leaderboard_tests_first(a) ==
  LET listed == ProfilesWithResults(a)
      summaries == [i \in 1..Len(listed) |->
                      ProgressOverview_profile_summary(a, listed[i])]
  IN  StableSort(summaries,
        [i \in 1..Len(summaries) |-> [j \in 1..Len(summaries) |->
           LET x == summaries[i]
               y == summaries[j]
           IN  \/ x.tests > y.tests
               \/ /\ x.tests = y.tests
                  /\ FracLess(y.average_accuracy, x.average_accuracy)]])

\* ProgressOverviewScene._build_leaderboard
ProgressOverview_build_leaderboard(a) ==
  LET listed == ProfilesWithResults(a)
      summaries == [i \in 1..Len(listed) |->
                      ProgressOverview_profile_summary(a, listed[i])]
  IN  StableSort(summaries,
        [i \in 1..Len(summaries) |-> [j \in 1..Len(summaries) |->
           LET x == summaries[i]
               y == summaries[j]
           IN  \/ FracLess(y.average_accuracy, x.average_accuracy)
               \/ /\ FracEq(x.average_accuracy, y.average_accuracy)
                  /\ x.tests > y.tests]])

\* _longest_streak without the reset of the running count
RECURSIVE ProgressOverview_longest_streak_no_reset(_)
ProgressOverview_longest_streak_no_reset(results) ==
  IF results = <<>> THEN 0
  ELSE ProgressOverview_longest_streak_no_reset(
         SubSeq(results, 1, Len(results) - 1))
         + (IF FracEq(accuracy(results[Len(results)]), [num |-> 1, den |-> 1])
            THEN 1 ELSE 0)

\* the loop of _longest_streak: best and running after the results
RECURSIVE StreakLoop(_)
StreakLoop(results) ==
  IF results = <<>> THEN [best |-> 0, running |-> 0]
  ELSE LET before == StreakLoop(SubSeq(results, 1, Len(results) - 1))
           result == results[Len(results)]
           running == IF FracEq(accuracy(result), [num |-> 1, den |-> 1])
                      THEN before.running + 1
                      ELSE 0
       IN  [best |-> Max(before.best, running), running |-> running]

\* ProgressOverviewScene._longest_streak
ProgressOverview_longest_streak(results) == StreakLoop(results).best

\* the keys of the dictionary combined, in the order of their insertion
RECURSIVE CombinedKeys(_)
CombinedKeys(results) ==
  IF results = <<>> THEN <<>>
  ELSE LET before == CombinedKeys(SubSeq(results, 1, Len(results) - 1))
           keys == results[Len(results)].table_keys
       IN  before \o SelectSeq(keys, LAMBDA table : ~InSeq(table, before))

\* the dictionary combined: the sums over the results per table
RECURSIVE CombinedStat(_, _)
CombinedStat(results, table) ==
  IF results = <<>> THEN [incorrect |-> 0, questions |-> 0, total_time |-> 0]
  ELSE LET before == CombinedStat(SubSeq(results, 1, Len(results) - 1), table)
           result == results[Len(results)]
       IN  IF table \in DOMAIN result.table_stats
           THEN [incorrect |-> before.incorrect
                                 + result.table_stats[table].incorrect,
                 questions |-> before.questions
                                 + result.table_stats[table].questions,
                 total_time |-> before.total_time
                                  + result.table_stats[table].total_time]
           ELSE before

\* the tuples (table, incorrect, avg_time) before they are sorted
TrickySummary(results) ==
  LET keys == CombinedKeys(results)
  IN  [i \in 1..Len(keys) |->
         LET stats == CombinedStat(results, keys[i])
         IN  [table |-> keys[i],
              incorrect |-> stats.incorrect,
              avg_time |-> IF stats.questions # 0
                           THEN [num |-> stats.total_time,
                                 den |-> stats.questions]
                           ELSE [num |-> 0, den |-> 1]]]

\* _aggregate_tricky_tables sorting in ascending order
ProgressOverview_aggregate_tricky_tables_ascending(results) ==
  LET rows == TrickySummary(results)
      sorted == StableSort(rows,
                  [i \in 1..Len(rows) |-> [j \in 1..Len(rows) |->
                     \/ rows[i].incorrect < rows[j].incorrect
                     \/ /\ rows[i].incorrect = rows[j].incorrect
                        /\ FracLess(rows[i].avg_time, rows[j].avg_time)]])
  IN  SubSeq(sorted, 1, Min(4, Len(sorted)))

\* ProgressOverviewScene._aggregate_tricky_tables
ProgressOverview_aggregate_tricky_tables(results) ==
  LET rows == TrickySummary(results)
      sorted == StableSort(rows,
                  [i \in 1..Len(rows) |-> [j \in 1..Len(rows) |->
                     \/ rows[i].incorrect > rows[j].incorrect
                     \/ /\ rows[i].incorrect = rows[j].incorrect
                        /\ FracLess(rows[j].avg_time, rows[i].avg_time)]])
  IN  SubSeq(sorted, 1, Min(4, Len(sorted)))

\* ProgressOverviewScene._load_data: the fields of the scene
ProgressOverview_load_data(a) ==
  LET recent_results ==
        ProgressOverview_parse_results(get_test_results(a, a.active_profile))
  IN  [op |-> "load_data",
       arg |-> a.active_profile,
       recent_results |-> recent_results,
       latest_result |-> IF recent_results # <<>>
                         THEN <<recent_results[Len(recent_results)]>>
                         ELSE <<>>,
       tricky_tables |-> ProgressOverview_aggregate_tricky_tables(recent_results),
       leaderboard_rows |-> ProgressOverview_build_leaderboard(a),
       rendered |-> FALSE,
       streak |-> 0]

\* a result as record_test stores it: table_keys is the order of the keys of
\* the dictionary table_stats
OverviewResult(pid, timestamp, answered, correct, table_keys, table_stats) ==
  [profile_id |-> pid, tables |-> <<4>>, question_count |-> answered,
   answered |-> answered, correct |-> correct,
   incorrect |-> answered - correct, time_limit_seconds |-> 3,
   elapsed_seconds |-> 1, timestamp |-> timestamp,
   table_keys |-> table_keys, table_stats |-> table_stats]

\* ProgressOverviewScene.__init__ on the application
ProgressOverviewOpen ==
  /\ scene = "menu"
  /\ scene' = "progress"
  /\ last' = ProgressOverview_load_data(app)
  /\ UNCHANGED <<app, ts, ps, summary, setup>>

\* ProgressOverviewScene.render: the statistics cards
ProgressOverviewRender ==
  /\ scene = "progress"
  /\ last.op = "load_data"
  /\ last' = [last EXCEPT
                !.rendered = TRUE,
                !.streak = ProgressOverview_longest_streak(last.recent_results)]
  /\ UNCHANGED <<app, scene, ts, ps, summary, setup>>

\* ProgressOverviewScene.handle_events: Escape or the back button
ProgressOverviewBack ==
  /\ scene = "progress"
  /\ scene' = "menu"
  /\ last' = NoCall
  /\ UNCHANGED <<app, ts, ps, summary, setup>>

\* two profiles without a stored result, the first one active
OverviewInit ==
  /\ app = [profiles |-> <<"anna", "bram">>,
            profile_coins |-> ("anna" :> 0) @@ ("bram" :> 0),
            active_profile |-> "anna",
            active_profile_index |-> 0,
            scores |-> EmptyScores]
  /\ scene = "menu"
  /\ ts = NoTestSession
  /\ ps = NoPracticeSession
  /\ summary = NoSummary
  /\ last = NoCall
  /\ setup = NoSetup

\* the results of the leaderboard runs: nothing answered, 8 of 10, 9 of 10
LeaderboardResults(pid) ==
  {OverviewResult(pid, 1, n[1], n[2], <<>>, <<>>) :
     n \in {<<0, 0>>, <<10, 8>>, <<10, 9>>}}

\* _finish_session storing a result of the active profile
RecordLeaderboardTest ==
  /\ scene = "menu"
  /\ Len(get_test_results(app, app.active_profile)) < MaxTests
  /\ \E result \in LeaderboardResults(app.active_profile) :
       app' = record_test(app, result)
  /\ last' = Called("record_test", app.active_profile, 0)
  /\ UNCHANGED <<scene, ts, ps, summary, setup>>

\* MainMenuScene._handle_profile_click in the main menu
MenuSelectProfile ==
  /\ scene = "menu"
  /\ SelectProfile

LeaderboardNext ==
  \/ MenuSelectProfile
  \/ RecordLeaderboardTest
  \/ ProgressOverviewOpen
  \/ ProgressOverviewRender
  \/ ProgressOverviewBack

LeaderboardSpec == OverviewInit /\ [][LeaderboardNext]_vars

\* the clock readings of the results
Timestamps == {1, 2, 3}

\* the results of the streak runs: nothing answered, 1 of 2, 1 of 1
StreakResults(pid) ==
  {OverviewResult(pid, t, n[1], n[2], <<>>, <<>>) :
     t \in Timestamps, n \in {<<0, 0>>, <<2, 1>>, <<1, 1>>}}

\* _finish_session storing a result of the active profile when the clock
\* reads any of the timestamps
RecordStreakTest ==
  /\ scene = "menu"
  /\ Len(get_test_results(app, app.active_profile)) < MaxTests
  /\ \E result \in StreakResults(app.active_profile) :
       app' = record_test(app, result)
  /\ last' = Called("record_test", app.active_profile, 0)
  /\ UNCHANGED <<scene, ts, ps, summary, setup>>

StreakNext ==
  \/ RecordStreakTest
  \/ ProgressOverviewOpen
  \/ ProgressOverviewRender
  \/ ProgressOverviewBack

StreakSpec == OverviewInit /\ [][StreakNext]_vars

\* a table_stats entry; times are in the half seconds of the session clock
TableStat(questions, incorrect, total_time) ==
  [questions |-> questions, correct |-> questions - incorrect,
   incorrect |-> incorrect, total_time |-> total_time]

\* the table_stats of the results of the tricky-table runs, each with the
\* order of its keys
TrickyStats ==
  {[keys |-> <<7>>, stats |-> (7 :> TableStat(2, 1, 8))],
   [keys |-> <<7>>, stats |-> (7 :> TableStat(3, 2, 12))],
   [keys |-> <<2, 3, 4, 5>>,
    stats |-> (2 :> TableStat(1, 1, 2)) @@ (3 :> TableStat(1, 1, 4))
                @@ (4 :> TableStat(2, 0, 2)) @@ (5 :> TableStat(1, 0, 6))],
   [keys |-> <<5, 2>>,
    stats |-> (5 :> TableStat(1, 1, 2)) @@ (2 :> TableStat(1, 0, 1))]}

TrickyResults(pid) ==
  {OverviewResult(pid, t, 1, 1, s.keys, s.stats) :
     t \in {1, 2}, s \in TrickyStats}

\* a result of the score file whose entry of table 9 has no question
UnaskedResult(pid) ==
  OverviewResult(pid, 1, 0, 0, <<9>>, (9 :> TableStat(0, 0, 0)))

\* the score file at start-up: empty, or with the result without a question
TrickyInit ==
  /\ \E scores \in {EmptyScores, ("anna" :> <<UnaskedResult("anna")>>)} :
       app = [profiles |-> <<"anna", "bram">>,
              profile_coins |-> ("anna" :> 0) @@ ("bram" :> 0),
              active_profile |-> "anna",
              active_profile_index |-> 0,
              scores |-> scores]
  /\ scene = "menu"
  /\ ts = NoTestSession
  /\ ps = NoPracticeSession
  /\ summary = NoSummary
  /\ last = NoCall
  /\ setup = NoSetup

\* _finish_session storing a result of the active profile
RecordTrickyTest ==
  /\ scene = "menu"
  /\ Len(get_test_results(app, app.active_profile)) < MaxTests
  /\ \E result \in TrickyResults(app.active_profile) :
       app' = record_test(app, result)
  /\ last' = Called("record_test", app.active_profile, 0)
  /\ UNCHANGED <<scene, ts, ps, summary, setup>>

TrickyNext ==
  \/ RecordTrickyTest
  \/ ProgressOverviewOpen
  \/ ProgressOverviewRender
  \/ ProgressOverviewBack

TrickySpec == TrickyInit /\ [][TrickyNext]_vars

----------------------------------------------------------------------------
(* The table attribution of both sessions applied to arbitrary questions:  *)
(* a session object holding any question over AttributionOperands, with    *)
(* any of the table sets, answers it.                                      *)

AttributionOperands == {1, 4, 8}

AttributionTables == {<<1>>, <<4>>, <<8>>, <<1, 4>>, <<8, 1>>, <<4, 8>>}

AttributionQuestions == [left : AttributionOperands, right : AttributionOperands]

\* a test session or a practice session that holds arbitrary questions
AttributionInit ==
  /\ app = [profiles |-> <<"anna", "bram">>,
            profile_coins |-> ("anna" :> 0) @@ ("bram" :> 0),
            active_profile |-> "anna",
            active_profile_index |-> 0,
            scores |-> EmptyScores]
  /\ summary = NoSummary
  /\ last = NoCall
  /\ setup = NoSetup
  /\ \/ /\ scene = "test"
        /\ ps = NoPracticeSession
        /\ \E tables \in AttributionTables, n \in 1..MaxQuestions :
             \E questions \in [1..n -> AttributionQuestions] :
               ts = TestSession_init(
                      [tables |-> tables, question_count |-> n,
                       time_limit_seconds |-> 3],
                      "Slak", questions)
     \/ /\ scene = "practice"
        /\ ts = NoTestSession
        /\ \E tables \in AttributionTables, q \in AttributionQuestions :
             ps = [PracticeSession_init([tables |-> tables], NoDraw)
                     EXCEPT !.current_question = q]

\* TestSessionScene._submit_answer with an input that is the integer guess:
\* the answer of the question or 0
AttributionTestAnswer ==
  /\ scene = "test"
  /\ ~ts.finished
  /\ LET question == ts.questions[ts.current_index + 1]
     IN  \E guess \in {Answer(question), 0} :
           Becomes(TestSession_accept_answer(World, question, guess))

\* PracticeSessionScene._submit_answer with an input that is the integer
\* guess: the answer of the question or 0
AttributionPracticeAnswer ==
  /\ scene = "practice"
  /\ ps.total_attempts < MaxQuestions
  /\ \E guess \in {Answer(ps.current_question), 0}, next \in Draws :
       Becomes(PracticeSession_accept_answer(World, ps.current_question,
                                             guess, next))

AttributionNext ==
  \/ AttributionTestAnswer
  \/ AttributionPracticeAnswer

AttributionSpec == AttributionInit /\ [][AttributionNext]_vars

----------------------------------------------------------------------------
(* The weighted selection of the practice session applied to arbitrary     *)
(* statistics.                                                             *)

SelectionTables == {<<1, 4>>, <<4, 1>>, <<1, 4, 8>>}

\* the entries table_stats can hold after at most two answers for a table
SelectionStats ==
  {[questions |-> n[1], correct |-> n[1] - n[2], incorrect |-> n[2],
    total_time |-> n[3]] :
     n \in {m \in (0..2) \X (0..2) \X (0..MaxPracticeTime) :
              m[2] <= m[1] /\ (m[1] = 0 => m[3] = 0)}}

RECURSIVE SumOver(_, _)
SumOver(f, S) ==
  IF S = {} THEN 0
  ELSE LET x == CHOOSE y \in S : TRUE IN f[x] + SumOver(f, S \ {x})

\* a practice session whose statistics are any of SelectionStats per table
SelectionInit ==
  /\ app = [profiles |-> <<"anna", "bram">>,
            profile_coins |-> ("anna" :> 0) @@ ("bram" :> 0),
            active_profile |-> "anna",
            active_profile_index |-> 0,
            scores |-> EmptyScores]
  /\ scene = "practice"
  /\ ts = NoTestSession
  /\ summary = NoSummary
  /\ last = NoCall
  /\ setup = NoSetup
  /\ \E tables \in SelectionTables :
       \E stats \in [{tables[i] : i \in 1..Len(tables)} -> SelectionStats] :
         ps = [PracticeSession_init([tables |-> tables], NoDraw) EXCEPT
                 !.table_stats = stats,
                 !.total_attempts =
                    SumOver([t \in DOMAIN stats |-> stats[t].questions],
                            DOMAIN stats),
                 !.correct_answers =
                    SumOver([t \in DOMAIN stats |-> stats[t].correct],
                            DOMAIN stats)]

\* PracticeSessionScene._next_question with the draws of _create_question
SelectionNextQuestion ==
  /\ scene = "practice"
  /\ last = NoCall
  /\ \E draw \in Draws :
       /\ ps' = PracticeSession_next_question(ps, draw)
       /\ last' = [op |-> "select_table", k |-> draw.k, right |-> draw.right]
  /\ UNCHANGED <<app, scene, ts, summary, setup>>

SelectionSpec == SelectionInit /\ [][SelectionNextQuestion]_vars

----------------------------------------------------------------------------
(* The setup scenes (src/game/scenes/test_setup.py and practice_setup.py). *)
(* Both keep the selection in selected_tables; the practice setup has no   *)
(* speed and no question count and leaves their indices at 0.              *)

\* the largest table of TABLE_VALUES, 10 in the source
MaxTable == 3

TABLE_VALUES == 1..MaxTable

FEEDBACK_CHOOSE == 5

\* sorted(values)
RECURSIVE Sorted(_)
Sorted(values) ==
  IF values = {} THEN <<>>
  ELSE LET least == CHOOSE x \in values : \A y \in values : x <= y
       IN  <<least>> \o Sorted(values \ {least})

\* the speed options and question choices, scaled down to the bounds
SPEED_OPTIONS == <<"Slak", "Haas">>

QUESTION_CHOICES == [i \in 1..MaxQuestions |-> i]

\* TestSetupScene.__init__ and PracticeSetupScene.__init__: defaults are the
\* default tables of the settings
Setup_init(defaults) ==
  LET filtered_tables == defaults \cap TABLE_VALUES
  IN  [selected_tables |-> IF filtered_tables # {} THEN filtered_tables
                           ELSE TABLE_VALUES,
       selected_speed_index |-> 0,
       selected_question_index |-> 0,
       feedback_message |-> "",
       feedback_timer |-> 0]

\* the events of a setup scene: keys, and clicks on the start button, a
\* table, a speed option or a question choice
SetupEvents ==
  {<<"key", k>> : k \in {"K_ESCAPE", "K_RETURN", "K_a", "K_w"}}
    \cup {<<"start_button", 0>>}
    \cup {<<"table", value>> : value \in TABLE_VALUES}
    \cup {<<"speed", index>> : index \in 0..(Len(SPEED_OPTIONS) - 1)}
    \cup {<<"questions", index>> : index \in 0..(Len(QUESTION_CHOICES) - 1)}

\* the world of the setup scenes
SetupWorld ==
  [app |-> app, scene |-> scene, ts |-> ts, ps |-> ps, summary |-> summary,
   setup |-> setup]

\* the refusal of _start_test and _start_practice without its message
Setup_refuse_silent(w) == w

\* the refusal of _start_test and _start_practice: the selection is empty
Setup_refuse(w) ==
  [w EXCEPT !.setup.feedback_message = "choose_table",
            !.setup.feedback_timer = FEEDBACK_CHOOSE]

\* TestSetupScene._start_test; questions are the questions the new session
\* generates
TestSetup_start_test(w, limit, questions) ==
  IF w.setup.selected_tables = {} THEN Setup_refuse(w)
  ELSE LET speed == SPEED_OPTIONS[w.setup.selected_speed_index + 1]
           question_count ==
             QUESTION_CHOICES[w.setup.selected_question_index + 1]
           config == [tables |-> Sorted(w.setup.selected_tables),
                      question_count |-> question_count,
                      time_limit_seconds |-> limit]
       IN  StartTestSession(w, config, speed, questions)

\* PracticeSetupScene._start_practice; draw holds the draws of the first
\* question of the new session
PracticeSetup_start_practice(w, draw) ==
  IF w.setup.selected_tables = {} THEN Setup_refuse(w)
  ELSE LET config == [tables |-> Sorted(w.setup.selected_tables)]
       IN  [w EXCEPT !.scene = "practice",
                     !.ps = PracticeSession_init(config, draw)]

\* the part of handle_events both setup scenes share: back, select all,
\* clear, toggle a table
Setup_handle_selection(w, e) ==
  IF e \in {<<"key", "K_ESCAPE">>} THEN [w EXCEPT !.scene = "menu"]
  ELSE IF e = <<"key", "K_a">>
  THEN [w EXCEPT !.setup.selected_tables = TABLE_VALUES]
  ELSE IF e = <<"key", "K_w">>
  THEN [w EXCEPT !.setup.selected_tables = {}]
  ELSE IF e[1] = "table"
  THEN [w EXCEPT !.setup.selected_tables =
                    IF e[2] \in @ THEN @ \ {e[2]} ELSE @ \cup {e[2]}]
  ELSE w

\* TestSetupScene.handle_events with one event
TestSetup_handle_events(w, e, limit, questions) ==
  IF e \in {<<"key", "K_RETURN">>, <<"start_button", 0>>}
  THEN TestSetup_start_test(w, limit, questions)
  ELSE IF e[1] = "speed"
  THEN [w EXCEPT !.setup.selected_speed_index = e[2]]
  ELSE IF e[1] = "questions"
  THEN [w EXCEPT !.setup.selected_question_index = e[2]]
  ELSE Setup_handle_selection(w, e)

\* PracticeSetupScene.handle_events with one event: a click where the test
\* setup has its speed and question options hits nothing
PracticeSetup_handle_events(w, e, draw) ==
  IF e \in {<<"key", "K_RETURN">>, <<"start_button", 0>>}
  THEN PracticeSetup_start_practice(w, draw)
  ELSE Setup_handle_selection(w, e)

\* TestSetupScene.update and PracticeSetupScene.update
Setup_update(w, delta_time) ==
  IF w.setup.feedback_timer > 0
  THEN LET timer == Max(w.setup.feedback_timer - delta_time, 0)
       IN  [w EXCEPT !.setup.feedback_timer = timer,
                     !.setup.feedback_message = IF timer = 0 THEN "" ELSE @]
  ELSE w

\* update and render of App.run for the scene that is active after the events
SetupUpdateAndRender(w, dt) ==
  IF w.scene \in {"test_setup", "practice_setup"} THEN Setup_update(w, dt)
  ELSE UpdateAndRender(w, dt)

SetupBecomes(w, e) ==
  /\ app' = w.app
  /\ scene' = w.scene
  /\ ts' = w.ts
  /\ ps' = w.ps
  /\ summary' = w.summary
  /\ setup' = w.setup
  /\ last' = [op |-> "setup_event", arg |-> e]

\* App.change_scene(TestSetupScene) or App.change_scene(PracticeSetupScene)
\* from the main menu, with any default tables in the settings
MenuOpenSetup ==
  /\ scene = "menu"
  /\ scene' \in {"test_setup", "practice_setup"}
  /\ \E defaults \in SUBSET (0..MaxTable) : setup' = Setup_init(defaults)
  /\ last' = NoCall
  /\ UNCHANGED <<app, ts, ps, summary>>

\* a frame of App.run with one event while the test setup is active
TestSetupFrame ==
  /\ scene = "test_setup"
  /\ \E e \in SetupEvents, limit \in TimeLimits, dt \in FrameTimes :
       LET n == QUESTION_CHOICES[setup.selected_question_index + 1]
           tables == Sorted(setup.selected_tables)
       IN  \E questions \in
                IF tables = <<>> THEN {<<>>}
                ELSE GeneratedQuestions([tables |-> tables,
                                         question_count |-> n]) :
             SetupBecomes(
               SetupUpdateAndRender(
                 TestSetup_handle_events(SetupWorld, e, limit, questions), dt),
               e)

\* a frame of App.run with one event while the practice setup is active
PracticeSetupFrame ==
  /\ scene = "practice_setup"
  /\ \E e \in SetupEvents, draw \in Draws, dt \in FrameTimes :
       SetupBecomes(
         SetupUpdateAndRender(
           PracticeSetup_handle_events(SetupWorld, e, draw), dt),
         e)

SetupInit ==
  /\ InitApp
  /\ scene = "menu"

SetupNext ==
  \/ MenuOpenSetup
  \/ TestSetupFrame
  \/ PracticeSetupFrame

SetupSpec == SetupInit /\ [][SetupNext]_vars

----------------------------------------------------------------------------
(* Start-up from the files of the data directory (src/game/app.py,         *)
(* src/game/storage.py).  A file is missing, corrupt (not JSON), or holds  *)
(* a JSON value [type, value]; the repository keeps the value json.loads   *)
(* returned in app.scores.  A call that raises an exception nothing        *)
(* catches ends the program: scene = "crashed".                            *)

JValue(type, num, str, items, fields) ==
  [type |-> type, num |-> num, str |-> str, items |-> items,
   fields |-> fields]
JMissing == JValue("missing", 0, "", <<>>, <<>>)
JCorrupt == JValue("corrupt", 0, "", <<>>, <<>>)
JNumber(n) == JValue("number", n, "", <<>>, <<>>)
JString(s) == JValue("string", 0, s, <<>>, <<>>)
JArray(s) == JValue("array", 0, "", s, <<>>)
JObject(f) == JValue("object", 0, "", <<>>, f)

Raised == [raised |-> TRUE, value |-> <<>>]
Returned(v) == [raised |-> FALSE, value |-> v]

\* the payload record_test stores for a result
SavedResult(pid, answered, correct) ==
  JObject(OverviewResult(pid, 1, answered, correct, <<>>, <<>>))

\* a dictionary of profiles.json
SavedProfile(identifier, coins) ==
  JObject([id |-> identifier, coins |-> coins])

\* the contents of scores.json
ScoreFiles ==
  {JMissing, JCorrupt,
   JArray(<<>>), JNumber(5), JObject(EmptyScores),
   JObject("anna" :> JArray(<<SavedResult("anna", 1, 1)>>)),
   JObject("anna" :> JArray(<<JNumber(1), SavedResult("anna", 2, 1)>>)),
   JObject("anna" :> JNumber(5)),
   JObject("bram" :> JString("ab"))}

\* the contents of profiles.json
ProfileFiles ==
  {JMissing, JCorrupt, JObject(EmptyScores),
   JArray(<<SavedProfile("anna", JNumber(3))>>),
   JArray(<<JNumber(1), SavedProfile("anna", JNumber(0)),
            SavedProfile("bram", JString("7"))>>),
   JArray(<<SavedProfile("anna", JString("abc"))>>)}

\* ScoreRepository._load
ScoreRepository_load(file) ==
  IF file.type \in {"missing", "corrupt"} THEN JObject(EmptyScores) ELSE file

\* int(item.get("coins", 0)): the decimal strings of the files are "7"
IntOf(coins) ==
  IF coins.type = "number" THEN Returned(coins.num)
  ELSE IF coins = JString("7") THEN Returned(7)
  ELSE Raised

\* the loop of _load_profiles over the items of the payload
RECURSIVE LoadProfileItems(_)
LoadProfileItems(items) ==
  IF items = <<>> THEN Returned(<<>>)
  ELSE LET before == LoadProfileItems(SubSeq(items, 1, Len(items) - 1))
           item == items[Len(items)]
       IN  IF before.raised THEN Raised
           ELSE IF item.type # "object" THEN before
           ELSE LET coins == IntOf(item.fields.coins)
                IN  IF coins.raised THEN Raised
                    ELSE Returned(Append(before.value,
                                         [identifier |-> item.fields.id,
                                          coins |-> coins.value]))

\* App._load_profiles
App_load_profiles(file) ==
  IF file.type \in {"missing", "corrupt"} THEN Returned(<<>>)
  ELSE IF file.type # "array" THEN Returned(<<>>)
  ELSE LoadProfileItems(file.items)

\* ScoreRepository.get_test_results on the loaded value: .get exists on a
\* dictionary only, and list() takes a list, the characters of a string or
\* the keys of a dictionary
ScoreRepository_get_test_results(data, profile_id) ==
  IF data.type # "object" THEN Raised
  ELSE LET found == IF profile_id \in DOMAIN data.fields
                    THEN data.fields[profile_id]
                    ELSE JArray(<<>>)
       IN  IF found.type = "array" THEN Returned(found.items)
           ELSE IF found.type = "string"
           THEN Returned([i \in 1..2 |-> JString("char")])
           ELSE Raised

\* ScoreRepository.record_test on the loaded value: .setdefault exists on a
\* dictionary only and .append on a list only
ScoreRepository_record_test(data, payload) ==
  IF data.type # "object" THEN Raised
  ELSE LET profile_id == payload.fields.profile_id
           found == IF profile_id \in DOMAIN data.fields
                    THEN data.fields[profile_id]
                    ELSE JArray(<<>>)
       IN  IF found.type # "array" THEN Raised
           ELSE Returned(JObject((profile_id :>
                                    JArray(Append(found.items, payload)))
                                   @@ data.fields))

\* the dictionaries among the payloads: _parse_results skips the others
RECURSIVE DictPayloads(_)
DictPayloads(payloads) ==
  IF payloads = <<>> THEN <<>>
  ELSE LET before == DictPayloads(SubSeq(payloads, 1, Len(payloads) - 1))
           payload == payloads[Len(payloads)]
       IN  IF payload.type = "object" THEN Append(before, payload.fields)
           ELSE before

\* _build_leaderboard on the loaded value
Load_build_leaderboard(a) ==
  LET listed == {a.profiles[i] : i \in 1..Len(a.profiles)}
      got == [pid \in listed |-> ScoreRepository_get_test_results(a.scores, pid)]
  IN  IF \E pid \in listed : got[pid].raised THEN Raised
      ELSE Returned(ProgressOverview_build_leaderboard(
                      [a EXCEPT !.scores =
                         [pid \in listed |-> DictPayloads(got[pid].value)]]))

\* the program before App.__init__ with any files in the data directory
LoadInit ==
  /\ \E scores \in ScoreFiles, profiles \in ProfileFiles :
       app = [profiles |-> <<>>,
              profile_coins |-> EmptyScores,
              active_profile |-> "none",
              active_profile_index |-> 0,
              scores |-> JObject(EmptyScores),
              data_dir |-> [scores |-> scores, profiles |-> profiles]]
  /\ scene = "boot"
  /\ ts = NoTestSession
  /\ ps = NoPracticeSession
  /\ summary = NoSummary
  /\ last = NoCall
  /\ setup = NoSetup

\* the outcome of a call: the exception ends the program
Outcome(op, result) ==
  /\ last' = [op |-> op, raised |-> result.raised]
  /\ scene' = IF result.raised THEN "crashed" ELSE scene

\* App.__init__: the repository and the profiles are loaded; without a
\* profile the onboarding scene is shown
AppInit ==
  /\ scene = "boot"
  /\ LET loaded == App_load_profiles(app.data_dir.profiles)
         profiles == loaded.value
     IN  /\ last' = [op |-> "App.__init__", raised |-> loaded.raised]
         /\ scene' = IF loaded.raised THEN "crashed"
                     ELSE IF profiles = <<>> THEN "onboarding" ELSE "menu"
         /\ app' = IF loaded.raised THEN app
                   ELSE [app EXCEPT
                           !.scores = ScoreRepository_load(app.data_dir.scores),
                           !.profiles = [i \in 1..Len(profiles) |->
                                           profiles[i].identifier],
                           !.profile_coins =
                              [pid \in {profiles[i].identifier :
                                          i \in 1..Len(profiles)} |->
                                 (CHOOSE p \in {profiles[i] :
                                                  i \in 1..Len(profiles)} :
                                    p.identifier = pid).coins],
                           !.active_profile =
                              IF profiles = <<>> THEN "none"
                              ELSE profiles[1].identifier]
  /\ UNCHANGED <<ts, ps, summary, setup>>

\* a call of ScoreRepository.get_test_results for a profile of the list
LoadGetTestResults ==
  /\ scene = "menu"
  /\ \E i \in 1..Len(app.profiles) :
       Outcome("get_test_results",
               ScoreRepository_get_test_results(app.scores, app.profiles[i]))
  /\ UNCHANGED <<app, ts, ps, summary, setup>>

\* _finish_session storing a result of the active profile
LoadRecordTest ==
  /\ scene = "menu"
  /\ \E correct \in 0..1 :
       LET result == ScoreRepository_record_test(
                       app.scores, SavedResult(app.active_profile, 1, correct))
       IN  /\ IF result.raised THEN TRUE
             ELSE Len(result.value.fields[app.active_profile].items)
                    <= MaxStored
          /\ Outcome("record_test", result)
          /\ app' = IF result.raised THEN app
                    ELSE [app EXCEPT !.scores = result.value]
  /\ UNCHANGED <<ts, ps, summary, setup>>

\* ProgressOverviewScene._build_leaderboard
LoadBuildLeaderboard ==
  /\ scene = "menu"
  /\ Outcome("build_leaderboard", Load_build_leaderboard(app))
  /\ UNCHANGED <<app, ts, ps, summary, setup>>

LoadNext ==
  \/ AppInit
  \/ LoadGetTestResults
  \/ LoadRecordTest
  \/ LoadBuildLeaderboard

LoadSpec == LoadInit /\ [][LoadNext]_vars

----------------------------------------------------------------------------
(* The pay-out of a test session against the estimate of the setup scene:  *)
(* a session over any of RewardTables with any questions the generator can *)
(* return, answered right or wrong at any time before the limit.           *)

RewardTables == {<<1, 4>>, <<1, 2, 3, 4>>}

\* time_limit_seconds of the sessions, in half seconds
RewardTimeLimit == 8

RewardFrameTimes == {1, 6}

\* sum(per_question_reward(table) for table in table_list)
RECURSIVE RewardSum(_)
RewardSum(table_list) ==
  IF table_list = <<>> THEN 0
  ELSE per_question_reward(table_list[Len(table_list)])
         + RewardSum(SubSeq(table_list, 1, Len(table_list) - 1))

\* rewards.estimate_max_reward
estimate_max_reward(table_list, question_count, speed_label) ==
  IF table_list = <<>> \/ question_count <= 0 THEN 0
  ELSE RoundHalfEven(RewardSum(table_list) * question_count, Len(table_list))
         + Max(0, TIME_BONUS_SCALE + speed_bonus(speed_label))

\* a test session as TestSetupScene._start_test opens it
RewardInit ==
  /\ app = [profiles |-> <<"anna", "bram">>,
            profile_coins |-> ("anna" :> 0) @@ ("bram" :> 0),
            active_profile |-> "anna",
            active_profile_index |-> 0,
            scores |-> EmptyScores]
  /\ summary = NoSummary
  /\ last = NoCall
  /\ setup = NoSetup
  /\ scene = "test"
  /\ ps = NoPracticeSession
  /\ \E tables \in RewardTables, n \in 1..MaxQuestions, label \in SpeedLabels :
       LET config == [tables |-> tables, question_count |-> n,
                      time_limit_seconds |-> RewardTimeLimit]
       IN  \E questions \in GeneratedQuestions(config) :
             ts = TestSession_init(config, label, questions)

\* TestSessionScene._submit_answer with an input that is the integer guess:
\* the answer of the question or 0
RewardAnswer ==
  /\ scene = "test"
  /\ ~ts.finished
  /\ LET question == ts.questions[ts.current_index + 1]
     IN  \E guess \in {Answer(question), 0} :
           Becomes(TestSession_accept_answer(World, question, guess))

\* TestSessionScene.update
RewardUpdate ==
  /\ scene = "test"
  /\ \E dt \in RewardFrameTimes : Becomes(TestSession_update(World, dt))

RewardNext ==
  \/ RewardAnswer
  \/ RewardUpdate

RewardSpec == RewardInit /\ [][RewardNext]_vars

----------------------------------------------------------------------------
(* The questions of both sessions as their generators build them, for table *)
(* sets with and without the operand the generators draw.                   *)

QuestionTables == {<<4>>, <<1, 4>>, <<4, 8>>}

\* a session as the setup scenes open it
QuestionInit ==
  /\ app = [profiles |-> <<"anna", "bram">>,
            profile_coins |-> ("anna" :> 0) @@ ("bram" :> 0),
            active_profile |-> "anna",
            active_profile_index |-> 0,
            scores |-> EmptyScores]
  /\ summary = NoSummary
  /\ last = NoCall
  /\ setup = NoSetup
  /\ \/ /\ scene = "test"
        /\ ps = NoPracticeSession
        /\ \E tables \in QuestionTables, n \in 1..MaxQuestions,
              limit \in TimeLimits :
             LET config == [tables |-> tables, question_count |-> n,
                            time_limit_seconds |-> limit]
             IN  \E questions \in GeneratedQuestions(config) :
                   ts = TestSession_init(config, "Slak", questions)
     \/ /\ scene = "practice"
        /\ ts = NoTestSession
        /\ \E tables \in QuestionTables, draw \in Draws :
             ps = PracticeSession_init([tables |-> tables], draw)

QuestionNext ==
  \/ RewardAnswer
  \/ AttributionPracticeAnswer

QuestionSpec == QuestionInit /\ [][QuestionNext]_vars

----------------------------------------------------------------------------
(* The profile list and the active profile under every way of changing     *)
(* them: onboarding, the profile chips of the main menu, the settings      *)
(* scene, and the writes of the active profile back into the list.         *)

\* the position of the first profile with the identifier, counted from 0;
\* 0 when there is none (StopIteration)
FirstIndex(profiles, identifier) ==
  IF InSeq(identifier, profiles)
  THEN (CHOOSE i \in 1..Len(profiles) :
          /\ profiles[i] = identifier
          /\ \A j \in 1..(i - 1) : profiles[j] # identifier) - 1
  ELSE 0

\* App.set_active_profile
App_set_active_profile(a, identifier) ==
  [a EXCEPT !.active_profile_index = FirstIndex(a.profiles, identifier),
            !.active_profile = identifier]

\* ProfileOnboardingScene._create_profile with a non-empty name: the
\* identifier is one no profile has
Onboarding_create_profile(a, identifier) ==
  [a EXCEPT !.profiles = Append(@, identifier),
            !.active_profile_index = Len(a.profiles),
            !.active_profile = identifier,
            !.profile_coins = (identifier :> 0) @@ @]

\* SettingsScene._select_avatar with another file name: the active profile
\* is stored at active_profile_index
Settings_select_avatar(a) ==
  IF a.active_profile = "none" THEN a
  ELSE [a EXCEPT !.profiles[a.active_profile_index + 1] = a.active_profile]

\* App.__init__ without profiles (the onboarding scene) or with two
ProfileInit ==
  /\ \E profiles \in {<<>>, <<"anna", "bram">>} :
       /\ app = [profiles |-> profiles,
                 profile_coins |-> [p \in {profiles[i] : i \in 1..Len(profiles)} |-> 0],
                 active_profile |-> IF profiles = <<>> THEN "none"
                                    ELSE profiles[1],
                 active_profile_index |-> 0,
                 scores |-> EmptyScores]
       /\ scene = IF profiles = <<>> THEN "onboarding" ELSE "menu"
  /\ ts = NoTestSession
  /\ ps = NoPracticeSession
  /\ summary = NoSummary
  /\ last = NoCall
  /\ setup = NoSetup

\* the continue button of the onboarding scene
OnboardingCreateProfile ==
  /\ scene = "onboarding"
  /\ \E identifier \in GeneratedIds(app) :
       /\ app' = Onboarding_create_profile(app, identifier)
       /\ last' = Called("onboarding_profile", identifier, 0)
  /\ scene' = "menu"
  /\ UNCHANGED <<ts, ps, summary, setup>>

\* MainMenuScene._handle_profile_click on the chip of a profile
ProfileMenuSelect ==
  /\ scene = "menu"
  /\ \E i \in 1..Len(app.profiles) :
       /\ app' = App_set_active_profile(app, app.profiles[i])
       /\ last' = Called("set_active_profile", app.profiles[i], 0)
  /\ UNCHANGED <<scene, ts, ps, summary, setup>>

ProfileSettingsNew == scene = "menu" /\ SettingsNewProfile

ProfileSettingsDelete == scene = "menu" /\ SettingsDeleteProfile

ProfileAdjustCoins == scene = "menu" /\ AdjustActiveCoins

\* a click on another avatar in the settings scene
ProfileSelectAvatar ==
  /\ scene = "menu"
  /\ app' = Settings_select_avatar(app)
  /\ last' = Called("select_avatar", app.active_profile, 0)
  /\ UNCHANGED <<scene, ts, ps, summary, setup>>

ProfileNext ==
  \/ OnboardingCreateProfile
  \/ ProfileMenuSelect
  \/ ProfileSettingsNew
  \/ ProfileSettingsDelete
  \/ ProfileAdjustCoins
  \/ ProfileSelectAvatar

ProfileSpec == ProfileInit /\ [][ProfileNext]_vars

----------------------------------------------------------------------------
(* Properties.                                                             *)

ActiveCoins(a) == a.profile_coins[a.active_profile]

ClampAtZero(n) == IF n < 0 THEN 0 ELSE n

LiveTest == scene = "test" /\ ~ts.finished

\* C1: after adjust_active_coins(delta) the coins of the active profile are
\* max(0, old coins + delta), whatever the sign and size of delta, and no
\* profile ever has a negative balance.
C1_AdjustClampsAtZero ==
  /\ \A p \in ProfileIds : app.profile_coins[p] >= 0
  /\ last.op = "adjust_active_coins" =>
       ActiveCoins(app) = ClampAtZero(last.before + last.delta)

\* a balance of 1 was adjusted by -MaxDelta and is 0 now
C1_Witness ==
  /\ last.op = "adjust_active_coins"
  /\ last.before = 1
  /\ last.delta = 0 - MaxDelta
  /\ ActiveCoins(app) = 0

\* the sum S of the claim C2, taken from the per-table statistics of the
\* session: every correct answer earns the reward of its attributed table,
\* every incorrect one costs 2
RECURSIVE StatsTotal(_, _)
StatsTotal(stats, tables) ==
  IF tables = {} THEN 0
  ELSE LET t == CHOOSE x \in tables : TRUE
       IN  stats[t].correct * per_question_reward(t)
             - INCORRECT_PENALTY * stats[t].incorrect
             + StatsTotal(stats, tables \ {t})

\* the time bonus as the session pays it: the whole part of 8 * remaining / limit
PaidTimeBonus(s) ==
  LET limit == s.config.time_limit_seconds
      remaining == limit - Min(s.elapsed, limit)
  IN  (TIME_BONUS_SCALE * remaining) \div limit

\* C2: the coin delta of a finished test session is max(0, S) plus
\* max(0, time bonus + speed bonus): the clamp is applied to S before the
\* bonus is added, the delta is never negative, and a session without a correct
\* answer is paid exactly the bonus.
C2_PayoutClampsThenAddsBonus ==
  ts.finished =>
    LET total == StatsTotal(ts.table_stats, DOMAIN ts.table_stats)
        bonus == ClampAtZero(PaidTimeBonus(ts) + speed_bonus(ts.speed_label))
    IN  /\ ts.coin_delta = ClampAtZero(total) + bonus
        /\ ts.coin_delta >= 0
        /\ summary.coin_delta = ts.coin_delta
        /\ (ts.correct = 0 => ts.coin_delta = bonus)

\* a session with wrong answers only was paid its bonus
C2_Witness ==
  /\ ts.finished
  /\ ts.correct = 0
  /\ ts.incorrect >= 1
  /\ ts.coin_delta >= 4

\* C3: the time bonus in the payout of a test session is
\* rewards.time_bonus_from_ratio(remaining_seconds / time_limit_seconds), that
\* is round(clamp(ratio, 0, 1) * 8).
C3_PayoutUsesRoundedTimeBonus ==
  ts.finished =>
    LET limit == ts.config.time_limit_seconds
        remaining == limit - Min(ts.elapsed, limit)
        total == StatsTotal(ts.table_stats, DOMAIN ts.table_stats)
    IN  ts.coin_delta =
          ClampAtZero(total)
            + ClampAtZero(time_bonus_from_ratio(remaining, limit)
                            + speed_bonus(ts.speed_label))

\* C4: a step changes the score repository or a coin balance only by
\* finishing the running test session, and such a step appends exactly one
\* result to the results of the active profile and adds the coin delta of the
\* session once; every step that finishes a session does so.
C4_OneResultAndOnePayoutPerSession ==
  [][ LET p == app.active_profile
          changed == app'.scores # app.scores
                       \/ app'.profile_coins # app.profile_coins
          finishes == ~ts.finished /\ ts'.finished
      IN  /\ changed => scene = "test" /\ finishes
          /\ finishes =>
               /\ app'.scores =
                    (p :> Append(get_test_results(app, p), summary'.result)) @@ app.scores
               /\ app'.profile_coins =
                    [app.profile_coins EXCEPT ![p] = @ + ts'.coin_delta]
               /\ app'.active_profile = p
          /\ ts.finished => app' = app ]_vars

\* the last answer was given in a frame in which the deadline would have
\* passed as well: one result is stored
C4_Witness ==
  /\ ts.finished
  /\ ~summary.time_up
  /\ ts.elapsed + 1 >= ts.config.time_limit_seconds
  /\ Len(get_test_results(app, app.active_profile)) = 1

\* C5: a step of a running test session that does not finish it, be it
\* another frame of play or the abandonment by Escape or the back button,
\* leaves the score repository and the coins as they are, however many
\* answers were given.
C5_AbandonLeavesStoreAndCoins ==
  [][ (scene = "test" /\ ~ts'.finished) =>
        /\ app'.scores = app.scores
        /\ app'.profile_coins = app.profile_coins ]_vars

\* a session was abandoned after an answer, with nothing stored or paid
C5_Witness ==
  /\ scene \in {"menu", "test_setup"}
  /\ ~ts.finished
  /\ Len(ts.history) >= 1
  /\ get_test_results(app, app.active_profile) = <<>>

PracticeScenes == {"practice_setup", "practice", "practice_summary"}

\* C6: no step of a practice session (start, frames with any submissions,
\* stop, restart) changes the score repository, and the stop hands the
\* per-table statistics of the session to the summary.
C6_PracticeNeverWritesStore ==
  [][ /\ scene \in PracticeScenes => app'.scores = app.scores
      /\ (scene = "practice" /\ scene' = "practice_summary") =>
           /\ summary'.table_stats = ps'.table_stats
           /\ summary'.total_attempts = ps'.total_attempts ]_vars

\* a practice session with a correct and an incorrect answer was stopped
C6_Witness ==
  /\ scene = "practice_summary"
  /\ summary.total_attempts >= 2
  /\ summary.correct >= 1
  /\ summary.correct < summary.total_attempts

\* the coin amount of one answer: the reward of the table, or minus
\* max(2, reward // 2)
AnswerDelta(table, is_correct) ==
  IF is_correct THEN per_question_reward(table)
  ELSE 0 - Max(2, per_question_reward(table) \div 2)

C8_RejectedInputChangesNothing ==
  /\ LiveTest =>
       LET w == World
           w2 == TestSession_submit_answer(w)
           rejected == [w EXCEPT !.ts.feedback_message = w2.ts.feedback_message,
                                 !.ts.feedback_timer = w2.ts.feedback_timer]
       IN  /\ ts.input_value = <<>> =>
                w2 = rejected /\ w2.ts.feedback_message = "enter_answer"
           /\ (ts.input_value # <<>> /\ ~ParseInt(ts.input_value).ok) =>
                /\ w2 = [rejected EXCEPT !.ts.input_value = <<>>]
                /\ w2.ts.feedback_message = "digits_only"
  /\ scene = "practice" =>
       \A next \in Draws :
         LET w == World
             w2 == PracticeSession_submit_answer(w, next)
             rejected == [w EXCEPT !.ps.feedback_message = w2.ps.feedback_message,
                                   !.ps.feedback_timer = w2.ps.feedback_timer]
         IN  /\ ps.input_value = <<>> =>
                  w2 = rejected /\ w2.ps.feedback_message = "enter_answer"
             /\ (ps.input_value # <<>> /\ ~ParseInt(ps.input_value).ok) =>
                  /\ w2 = [rejected EXCEPT !.ps.input_value = <<>>]
                  /\ w2.ps.feedback_message = "digits_only"
  /\ Len(ts.history) = ts.correct + ts.incorrect
  /\ Len(ps.history) = ps.total_attempts

\* a non-integer input was rejected in a running test session: nothing is
\* answered, counted or stored, and the input is empty again
C8_Witness ==
  /\ LiveTest
  /\ ts.feedback_message = "digits_only"
  /\ ts.feedback_timer > 0
  /\ ts.input_value = <<>>
  /\ ts.history = <<>>
  /\ ts.elapsed >= 2

\* C9: in a test session a valid integer submission, correct or not, moves
\* the question index on by one and clears the input; the session finishes
\* normally exactly when the index reaches question_count, and the number of
\* answered questions never exceeds question_count.
C9_TestAlwaysAdvances ==
  /\ (LiveTest /\ ParseInt(ts.input_value).ok) =>
       LET s2 == TestSession_submit_answer(World).ts
       IN  /\ s2.current_index = ts.current_index + 1
           /\ s2.input_value = <<>>
           /\ Len(s2.history) = Len(ts.history) + 1
           /\ s2.finished <=> s2.current_index = ts.config.question_count
  /\ Len(ts.history) = ts.current_index
  /\ ts.current_index <= ts.config.question_count
  /\ ts.config.tables # <<>> =>
       ((ts.finished /\ ~summary.time_up)
          <=> ts.current_index = ts.config.question_count)

\* a wrong answer moved the session on to its second question
C9_Witness ==
  /\ LiveTest
  /\ ts.current_index = 1
  /\ ts.incorrect = 1
  /\ ts.config.question_count = 2

\* C10: in a practice session an incorrect valid submission keeps the
\* current question and clears the input, a correct one makes the question
\* that _create_question draws the current one, and no other event changes
\* the current question.
C10_PracticeRetriesUntilCorrect ==
  scene = "practice" =>
    \A next \in Draws :
      /\ ParseInt(ps.input_value).ok =>
           LET s2 == PracticeSession_submit_answer(World, next).ps
               is_correct == ParseInt(ps.input_value).value
                               = Answer(ps.current_question)
           IN  /\ s2.input_value = <<>>
               /\ ~is_correct => s2.current_question = ps.current_question
               /\ is_correct =>
                    /\ InSeq(s2.current_question.left, ps.config.tables)
                    /\ s2.current_question.right = next.right
                    /\ s2.question_start_time = ps.elapsed
                    /\ s2.correct_answers = ps.correct_answers + 1
      /\ \A e \in Events \ {"K_RETURN"} :
           PracticeSession_handle_event(World, e, next).w.ps.current_question
             = ps.current_question

\* two incorrect answers in a row, and the same question is still current
C10_Witness ==
  /\ scene = "practice"
  /\ Len(ps.history) >= 2
  /\ ~ps.history[Len(ps.history)].is_correct
  /\ ~ps.history[Len(ps.history) - 1].is_correct
  /\ ps.history[Len(ps.history) - 1].question = ps.current_question
  /\ ps.history[Len(ps.history)].question = ps.current_question
  /\ ps.input_value = <<>>

\* C11: a running test session does not run on for ever: frames being
\* taken, it is finished or abandoned at some time. While it runs elapsed is
\* below the time limit, and the timeout finishes it in the first frame
\* whose update brings elapsed to the limit or past it, whatever was
\* submitted.
C11_TestSessionTerminates ==
  /\ LiveTest ~> (ts.finished \/ scene # "test")
  /\ [](LiveTest => ts.elapsed < ts.config.time_limit_seconds)
  /\ [][ (LiveTest /\ ts'.finished /\ summary'.time_up) =>
           /\ ts.elapsed < ts.config.time_limit_seconds
           /\ ts'.elapsed >= ts.config.time_limit_seconds
           /\ \E dt \in FrameTimes : ts'.elapsed = ts.elapsed + dt ]_vars

\* a session in which nothing was answered was finished by the timeout
C11_Witness ==
  /\ ts.finished
  /\ summary.time_up
  /\ ts.history = <<>>
  /\ ts.elapsed >= ts.config.time_limit_seconds

\* the results the score repository holds
StoredResults ==
  UNION {{app.scores[p][i] : i \in 1..Len(app.scores[p])} : p \in DOMAIN app.scores}

\* C12: every result a test session produced, by a normal end or by the
\* timeout, has answered = correct + incorrect with both counts >= 0, an
\* accuracy between 0 and 1 that is 0 when nothing was answered, and
\* elapsed_seconds <= time_limit_seconds, so that remaining_seconds >= 0.
C12_ResultIsConsistent ==
  \A r \in StoredResults \cup (IF ts.finished THEN {summary.result} ELSE {}) :
    /\ r.answered = r.correct + r.incorrect
    /\ r.correct >= 0
    /\ r.incorrect >= 0
    /\ accuracy(r).den > 0
    /\ 0 <= accuracy(r).num
    /\ accuracy(r).num <= accuracy(r).den
    /\ (r.answered = 0 => accuracy(r).num = 0)
    /\ r.elapsed_seconds <= r.time_limit_seconds
    /\ remaining_seconds(r) >= 0
    /\ remaining_seconds(r) = r.time_limit_seconds - r.elapsed_seconds

\* the timeout finished a session nobody answered one tick past the limit:
\* the stored result has the limit as elapsed_seconds
C12_Witness ==
  /\ ts.finished
  /\ summary.time_up
  /\ ts.elapsed > ts.config.time_limit_seconds
  /\ summary.result.answered = 0
  /\ summary.result.elapsed_seconds = ts.config.time_limit_seconds
  /\ summary.result \in StoredResults

\* s is an initial part of t
IsPrefix(s, t) == Len(s) <= Len(t) /\ SubSeq(t, 1, Len(s)) = s

\* the profiles a step can store results for
StoreKeys == ProfileIds \cup DOMAIN app.scores

\* C13: the score repository is append-only. record_test(result) puts the
\* record at the end of the sequence of result.profile_id and leaves every
\* stored record of every profile as and where it was; records are removed
\* only by clear_profile (reset_scores, delete_profile), which empties the
\* sequence of one profile and leaves the others, and by clear_all
\* (reset_all), which empties the repository.
C13_StoreIsAppendOnly ==
  [][ \A p \in StoreKeys :
        LET old == get_test_results(app, p)
            new == get_test_results(app', p)
        IN  /\ last'.op = "record_test" =>
                 new = IF p = last'.arg THEN Append(old, last'.result) ELSE old
            /\ last'.op \in {"reset_scores", "delete_profile"} =>
                 new = IF p = last'.arg THEN <<>> ELSE old
            /\ last'.op = "reset_all" => new = <<>>
            /\ last'.op \notin {"reset_scores", "delete_profile", "reset_all"} =>
                 IsPrefix(old, new) ]_vars

\* a record was put behind a different one, the other profile has a record
C13_Witness ==
  /\ last.op = "record_test"
  /\ Len(get_test_results(app, last.arg)) = 2
  /\ get_test_results(app, last.arg)[2] = last.result
  /\ get_test_results(app, last.arg)[1] # last.result
  /\ \E p \in DOMAIN app.scores : p # last.arg /\ app.scores[p] # <<>>

\* C14: a successful delete_profile leaves the deleted identifier without
\* stored results and out of the profile list, and leaves the stored
\* results of every other profile unchanged; with a single profile the
\* action changes nothing.
C14_DeletePurgesScores ==
  [][ /\ last'.op = "delete_profile" =>
           LET pid == app.active_profile
           IN  /\ Len(app.profiles) > 1
               /\ InSeq(pid, app.profiles)
               /\ ~InSeq(pid, app'.profiles)
               /\ app'.profiles = SelectSeq(app.profiles, LAMBDA p : p # pid)
               /\ pid \notin DOMAIN app'.scores
               /\ get_test_results(app', pid) = <<>>
               /\ \A q \in StoreKeys \ {pid} :
                    get_test_results(app', q) = get_test_results(app, q)
               /\ app'.active_profile = app'.profiles[1]
      /\ last'.op = "delete_refused" => Len(app.profiles) <= 1 /\ app' = app
    ]_vars

\* a profile with stored results was deleted, the results of another
\* profile are still there
C14_Witness ==
  /\ last.op = "delete_profile"
  /\ last.purged >= 1
  /\ ~InSeq(last.arg, app.profiles)
  /\ last.arg \notin DOMAIN app.scores
  /\ \E q \in DOMAIN app.scores : app.scores[q] # <<>>

\* C20: the coins of a profile change only through adjust_active_coins:
\* every step that changes a coin balance is a call of that entry point and
\* leaves the balances the call computes, with its clamp at 0.
C20_CoinsOnlyThroughEntryPoint ==
  [][ app'.profile_coins # app.profile_coins =>
        /\ last'.op = "adjust_active_coins"
        /\ app'.profile_coins = adjust_active_coins(app, last'.delta).profile_coins
    ]_vars

----------------------------------------------------------------------------
\* the profiles of the application with at least one stored result
RankedProfiles ==
  {app.profiles[i] : i \in {k \in 1..Len(app.profiles) :
                              get_test_results(app, app.profiles[k]) # <<>>}}

\* the sum of the accuracies of the stored results from index i on
RECURSIVE AccuracyFrom(_, _)
AccuracyFrom(stored, i) ==
  IF i > Len(stored) THEN [num |-> 0, den |-> 1]
  ELSE FracAdd(IF stored[i].answered = 0
               THEN [num |-> 0, den |-> 1]
               ELSE [num |-> stored[i].correct, den |-> stored[i].answered],
               AccuracyFrom(stored, i + 1))

MeanAccuracy(stored) ==
  [num |-> AccuracyFrom(stored, 1).num,
   den |-> AccuracyFrom(stored, 1).den * Len(stored)]

----------------------------------------------------------------------------
PerfectResult(r) == r.answered > 0 /\ r.correct = r.answered

\* s holds the elements of t, each as often as t does
IsPermutation(s, t) ==
  /\ Len(s) = Len(t)
  /\ \A i \in 1..Len(t) :
       Cardinality({k \in 1..Len(s) : s[k] = t[i]})
         = Cardinality({k \in 1..Len(t) : t[k] = t[i]})

\* the lengths of the runs of perfect results in s
PerfectRuns(s) ==
  {j - i + 1 : i \in 1..Len(s), j \in 1..Len(s)} \cap
  {n \in 1..Len(s) :
     \E i \in 1..(Len(s) - n + 1) :
       \A k \in i..(i + n - 1) : PerfectResult(s[k])}

\* C16: the results the overview works on are the stored results of the
\* active profile in ascending order of timestamp, whatever their order in the
\* store, and the streak it shows is the length of the longest run of
\* consecutive results of that order with accuracy 1.0 (0 without such a
\* result); a result with nothing answered or a wrong answer ends a run.
C16_StreakIsLongestPerfectRun ==
  (last.op = "load_data" /\ last.rendered) =>
    LET sorted == last.recent_results
    IN  /\ IsPermutation(sorted, get_test_results(app, app.active_profile))
        /\ \A i \in 1..(Len(sorted) - 1) :
             sorted[i].timestamp <= sorted[i + 1].timestamp
        /\ \A n \in PerfectRuns(sorted) : n <= last.streak
        /\ last.streak \in PerfectRuns(sorted) \cup {0}

\* perfect results stored last and first that are neighbours by timestamp,
\* with an unanswered test stored between them
C16_Witness ==
  /\ last.op = "load_data"
  /\ last.rendered
  /\ last.streak = 2
  /\ LET stored == get_test_results(app, app.active_profile)
     IN  /\ Len(stored) = 3
         /\ stored[1].timestamp = 2 /\ PerfectResult(stored[1])
         /\ stored[2].timestamp = 3 /\ stored[2].answered = 0
         /\ stored[3].timestamp = 1 /\ PerfectResult(stored[3])

----------------------------------------------------------------------------
\* the tables with an entry in the stored results of the active profile
StatTables ==
  UNION {DOMAIN get_test_results(app, app.active_profile)[i].table_stats :
           i \in 1..Len(get_test_results(app, app.active_profile))}

\* the sums of the entries of a table over the stored results from index i on
RECURSIVE TableTotals(_, _, _)
TableTotals(stored, table, i) ==
  IF i > Len(stored) THEN [incorrect |-> 0, attempts |-> 0, time |-> 0]
  ELSE LET rest == TableTotals(stored, table, i + 1)
           here == IF table \in DOMAIN stored[i].table_stats
                   THEN stored[i].table_stats[table]
                   ELSE [questions |-> 0, incorrect |-> 0, total_time |-> 0]
       IN  [incorrect |-> rest.incorrect + here.incorrect,
            attempts |-> rest.attempts + here.questions,
            time |-> rest.time + here.total_time]

\* the sort key (incorrect, avg_time) of a table
TrickyKey(table) ==
  LET sums == TableTotals(get_test_results(app, app.active_profile), table, 1)
  IN  [incorrect |-> sums.incorrect,
       avg_time |-> IF sums.attempts = 0 THEN [num |-> 0, den |-> 1]
                    ELSE [num |-> sums.time, den |-> sums.attempts]]

\* key x does not sort behind key y in descending order
KeyNotBehind(x, y) ==
  \/ x.incorrect > y.incorrect
  \/ /\ x.incorrect = y.incorrect
     /\ ~FracLess(x.avg_time, y.avg_time)

\* C17: the tricky tables the overview loads have one row per table, with the
\* sum of the incorrect counts of the table over the results and the summed
\* response time divided by the summed attempts (0 without an attempt); the
\* rows are in descending order of (incorrect, avg_time) and are the first
\* four of that order, or all tables when there are fewer.
C17_TrickyTablesAggregate ==
  last.op = "load_data" =>
    LET rows == last.tricky_tables
        listed == {rows[i].table : i \in 1..Len(rows)}
    IN  /\ listed \subseteq StatTables
        /\ Len(rows) = Cardinality(listed)
        /\ Len(rows) = Min(4, Cardinality(StatTables))
        /\ \A i \in 1..Len(rows) :
             /\ rows[i].incorrect = TrickyKey(rows[i].table).incorrect
             /\ FracEq(rows[i].avg_time, TrickyKey(rows[i].table).avg_time)
        /\ \A i, j \in 1..Len(rows) :
             i < j => KeyNotBehind(rows[i], rows[j])
        /\ \A table \in StatTables \ listed :
             \A i \in 1..Len(rows) : KeyNotBehind(rows[i], TrickyKey(table))

\* table 7 with 1 and 2 incorrect, 4.0 s and 6.0 s, 2 and 3 attempts leads
\* with 3 incorrect and 2.0 s on average, and the fifth table is dropped
C17_Witness ==
  /\ last.op = "load_data"
  /\ Cardinality(StatTables) = 5
  /\ Len(last.tricky_tables) = 4
  /\ last.tricky_tables[1].table = 7
  /\ last.tricky_tables[1].incorrect = 3
  /\ last.tricky_tables[1].avg_time = [num |-> 20, den |-> 5]
  /\ last.tricky_tables[2].table = 3
  /\ last.tricky_tables[3].table = 2
  /\ last.tricky_tables[4].table = 5

----------------------------------------------------------------------------
\* the attributed table of a question as the claim C18 states it
Attributed(mode, tables, q) ==
  LET configured == {tables[i] : i \in 1..Len(tables)}
  IN  IF q.left \in configured THEN q.left
      ELSE IF q.right \in configured THEN q.right
      ELSE IF mode = "test"
           THEN (IF q.left >= q.right THEN q.left ELSE q.right)
           ELSE q.left

\* the statistics new are the statistics old with one more answer for table
StatStep(old, new, table, is_correct) ==
  /\ table \in DOMAIN new
  /\ new[table].questions = StatOf(old, table).questions + 1
  /\ new[table].correct
       = StatOf(old, table).correct + (IF is_correct THEN 1 ELSE 0)
  /\ new[table].incorrect
       = StatOf(old, table).incorrect + (IF is_correct THEN 0 ELSE 1)
  /\ \A other \in DOMAIN new \ {table} : new[other] = StatOf(old, other)

\* the rewards of the answers of a test from index i on, by attributed table
RECURSIVE AttributedTotal(_, _, _)
AttributedTotal(tables, history, i) ==
  IF i > Len(history) THEN 0
  ELSE (IF history[i].is_correct
        THEN 2 + Attributed("test", tables, history[i].question) \div 4
        ELSE 0 - INCORRECT_PENALTY)
         + AttributedTotal(tables, history, i + 1)

\* C18: an answer is counted in the statistics of the attributed table of its
\* question and of no other table: left if configured, else right if
\* configured, else the larger operand in a test and the left operand in
\* practice.  In a test the coins shown for the answer and the payout of the
\* session take the per-question reward of that same table; a practice answer
\* changes no coins.
C18_AttributionIsShared ==
  [][ /\ (scene = "test" /\ ~ts.finished
            /\ Len(ts'.history) = Len(ts.history) + 1) =>
           LET h == ts'.history[Len(ts'.history)]
               table == Attributed("test", ts.config.tables, h.question)
               per == 2 + table \div 4
           IN  /\ h.question = ts.questions[ts.current_index + 1]
               /\ StatStep(ts.table_stats, ts'.table_stats, table, h.is_correct)
               /\ ts'.session_coins =
                    ClampAtZero(ts.session_coins
                                  + (IF h.is_correct THEN per
                                     ELSE 0 - Max(2, per \div 2)))
               /\ ts'.finished =>
                    ts'.coin_delta =
                      ClampAtZero(AttributedTotal(ts.config.tables, ts'.history, 1))
                        + ClampAtZero(PaidTimeBonus(ts')
                                        + speed_bonus(ts'.speed_label))
      /\ (scene = "practice"
            /\ ps'.total_attempts = ps.total_attempts + 1) =>
           LET h == ps'.history[Len(ps'.history)]
               table == Attributed("practice", ps.config.tables, h.question)
           IN  /\ h.question = ps.current_question
               /\ StatStep(ps.table_stats, ps'.table_stats, table, h.is_correct)
               /\ app'.profile_coins = app.profile_coins ]_vars

\* 4 x 8 answered correctly in a test of table 1 is counted for table 8 and
\* shown with the 4 coins of table 8
C18_Witness ==
  /\ scene = "test"
  /\ ts.config.tables = <<1>>
  /\ Len(ts.history) = 1
  /\ ts.history[1].question = [left |-> 4, right |-> 8]
  /\ ts.history[1].is_correct
  /\ DOMAIN ts.table_stats = {8}
  /\ ts.session_coins = 4

----------------------------------------------------------------------------
RECURSIVE GCD(_, _)
GCD(m, n) == IF n = 0 THEN m ELSE GCD(n, m % n)

\* the fraction x in lowest terms
Lowest(x) ==
  [num |-> x.num \div GCD(x.num, x.den), den |-> x.den \div GCD(x.num, x.den)]

\* weight(t) of the claim C19: with time in half seconds, avg_response_time
\* is total_time / (2 * attempts) seconds, 0 without an attempt
ClaimWeight(stat) ==
  LET a == stat.questions
      avg_response_time == IF a = 0 THEN [num |-> 0, den |-> 1]
                           ELSE [num |-> stat.total_time, den |-> 2 * a]
      w == Lowest(FracAdd([num |-> 2 + 5 * stat.incorrect, den |-> 2],
                          [num |-> avg_response_time.num,
                           den |-> 4 * avg_response_time.den]))
  IN  IF FracLess(w, [num |-> 1, den |-> 10]) THEN [num |-> 1, den |-> 10]
      ELSE w

\* the cumulative weight of the first n tables
RECURSIVE Cumulative(_, _, _)
Cumulative(stats, tables, n) ==
  IF n = 0 THEN [num |-> 0, den |-> 1]
  ELSE Lowest(FracAdd(Cumulative(stats, tables, n - 1),
                      ClaimWeight(StatOf(stats, tables[n]))))

\* the draw r = sum(weights) * k / DrawGrid
DrawnWeight(stats, tables, k) ==
  LET total == Cumulative(stats, tables, Len(tables))
  IN  [num |-> total.num * k, den |-> total.den * DrawGrid]

\* C19: the table of a new practice question is a configured table: the first
\* one in configured order whose cumulative weight is at least the draw r, the
\* last one if there is none; when no table has a recorded answer all weights
\* are 1.0, so that every table is chosen for a range of r of the same length.
C19_SelectionIsWeighted ==
  [][ last'.op = "select_table" =>
        LET tables == ps.config.tables
            stats == ps.table_stats
            r == DrawnWeight(stats, tables, last'.k)
            covering == {i \in 1..Len(tables) :
                           ~FracLess(Cumulative(stats, tables, i), r)}
            chosen == ps'.current_question.left
        IN  /\ \E i \in 1..Len(tables) : tables[i] = chosen
            /\ covering # {} =>
                 \E i \in covering :
                   /\ chosen = tables[i]
                   /\ \A j \in covering : i <= j
            /\ covering = {} => chosen = tables[Len(tables)]
            /\ (\A i \in 1..Len(tables) : StatOf(stats, tables[i]).questions = 0)
                 => \A i \in 1..Len(tables) :
                      /\ FracEq(ClaimWeight(StatOf(stats, tables[i])),
                                [num |-> 1, den |-> 1])
                      /\ FracEq(Cumulative(stats, tables, i),
                                [num |-> i, den |-> 1]) ]_vars

\* a draw in the middle picks the first table because its two wrong answers
\* give it more than half of the total weight
C19_Witness ==
  /\ last.op = "select_table"
  /\ last.k = 1
  /\ ps.config.tables = <<1, 4>>
  /\ ps.table_stats[1].incorrect = 2
  /\ ps.table_stats[4].questions = 0
  /\ ps.current_question.left = 1

----------------------------------------------------------------------------
SetupScenes == {"test_setup", "practice_setup"}

StartRequests == {<<"key", "K_RETURN">>, <<"start_button", 0>>}

\* the members of the sequence s
Members(s) == {s[i] : i \in 1..Len(s)}

\* C21: a start request in a setup scene whose selection is empty leaves that
\* setup scene active, creates no session and shows the message that asks for
\* a table; a session is created only from a non-empty selection, and its
\* table list is exactly that selection, a non-empty subset of the table
\* values.
C21_EmptySelectionIsRefused ==
  [][ /\ (scene \in SetupScenes /\ last'.op = "setup_event"
            /\ last'.arg \in StartRequests /\ setup.selected_tables = {}) =>
           /\ scene' = scene
           /\ ts' = ts
           /\ ps' = ps
           /\ setup'.selected_tables = {}
           /\ setup'.feedback_message = "choose_table"
           /\ setup'.feedback_timer > 0
      /\ (scene \in SetupScenes /\ scene' \in {"test", "practice"}) =>
           LET tables == IF scene' = "test" THEN ts'.config.tables
                         ELSE ps'.config.tables
           IN  /\ last'.arg \in StartRequests
               /\ setup.selected_tables # {}
               /\ tables # <<>>
               /\ Members(tables) = setup.selected_tables
               /\ Members(tables) \subseteq TABLE_VALUES
               /\ scene' = "test" =>
                    /\ Len(ts'.questions) = ts'.config.question_count
                    /\ ts'.questions # <<>> ]_vars

\* the selection was cleared and the start request was refused
C21_Witness ==
  /\ scene = "practice_setup"
  /\ last.op = "setup_event"
  /\ last.arg = <<"key", "K_RETURN">>
  /\ setup.selected_tables = {}
  /\ setup.feedback_message = "choose_table"

----------------------------------------------------------------------------
\* C22: whatever the files of the data directory hold, App.__init__ and the
\* calls get_test_results, record_test and the construction of the
\* leaderboard return without raising an exception.
C22_MalformedDataNeverRaises ==
  /\ scene # "crashed"
  /\ last.op \in {"App.__init__", "get_test_results", "record_test",
                  "build_leaderboard"} => ~last.raised

\* C23: the coins a finished test session pays are never more than
\* estimate_max_reward of its tables, question count and speed tier.
C23_EstimateIsCeiling ==
  scene = "test_summary" =>
    summary.coin_delta
      <= estimate_max_reward(ts.config.tables, ts.config.question_count,
                             ts.speed_label)

\* the tables of the game
ClaimTables == 1..10

\* C24 as stated: for at least one table of 1..10, the tables of the running
\* session among them, the penalty of a wrong answer during the session
\* differs from the flat penalty of the pay-out.
C24_PenaltyDiffersFromFlat ==
  \E table \in ClaimTables \cup Members(ts.config.tables) :
    TestSession_answer_delta(FALSE, TestSession_per_question_reward(table))
      # 0 - INCORRECT_PENALTY

\* C24 amended: for every table of 1..10 the penalty of a wrong answer during
\* the session is the flat penalty of the pay-out, and every wrong answer of
\* a session lowers session_coins by exactly that amount, down to 0.
C24_PenaltyEqualsFlat ==
  [][ /\ \A table \in ClaimTables :
           TestSession_answer_delta(FALSE, TestSession_per_question_reward(table))
             = 0 - INCORRECT_PENALTY
      /\ (scene = "test" /\ ts'.incorrect = ts.incorrect + 1)
           => ts'.session_coins = Max(0, ts.session_coins - INCORRECT_PENALTY)
    ]_vars

C24_Witness ==
  /\ Len(ts.history) = 2
  /\ ts.history[1].is_correct
  /\ ~ts.history[2].is_correct
  /\ TestSession_determine_table(ts.config, ts.history[2].question) = 4
  /\ ts.session_coins = 1

\* the operand range of the game
ClaimOperands == 1..10

GeneratedFor(q, tables) ==
  /\ q.left \in ClaimOperands
  /\ q.right \in ClaimOperands
  /\ q.left \in Members(tables) \/ q.right \in Members(tables)

\* C25: every question of a test session and of a practice session has both
\* operands in 1..10 and at least one of them in the configured tables; a
\* test holds exactly question_count questions; a practice question has a
\* configured table on the left; so the table a question is attributed to is
\* a configured table and statistics exist for configured tables only.
C25_QuestionsComeFromTables ==
  /\ scene \in {"test", "test_summary"} /\ ts.config.tables # <<>> =>
       /\ Len(ts.questions) = ts.config.question_count
       /\ \A i \in 1..Len(ts.questions) :
            /\ GeneratedFor(ts.questions[i], ts.config.tables)
            /\ TestSession_determine_table(ts.config, ts.questions[i])
                 \in Members(ts.config.tables)
       /\ DOMAIN ts.table_stats \subseteq Members(ts.config.tables)
  /\ scene = "practice" =>
       /\ GeneratedFor(ps.current_question, ps.config.tables)
       /\ ps.current_question.left \in Members(ps.config.tables)
       /\ PracticeSession_determine_table(ps.config, ps.current_question)
            = ps.current_question.left
       /\ \A i \in 1..Len(ps.history) :
            ps.history[i].question.left \in Members(ps.config.tables)
       /\ DOMAIN ps.table_stats \subseteq Members(ps.config.tables)

C25_Witness ==
  /\ scene = "test_summary"
  /\ ts.config.tables = <<4, 8>>
  /\ Len(ts.history) = 2
  /\ ts.questions[1] = [left |-> 1, right |-> 8]
  /\ ts.questions[2] = [left |-> 4, right |-> 1]
  /\ DOMAIN ts.table_stats = {4, 8}

\* C26: whenever there is an active profile, active_profile_index is a
\* position of the list and the profile at that position is the active one;
\* so the writes of adjust_active_coins and of an avatar change at that
\* position leave the list as it is: no profile is overwritten or duplicated.
C26_ActiveProfileIsIndexed ==
  /\ app.active_profile # "none" =>
       /\ app.active_profile_index \in 0..(Len(app.profiles) - 1)
       /\ app.profiles[app.active_profile_index + 1] = app.active_profile
  /\ \A i, j \in 1..Len(app.profiles) :
       app.profiles[i] = app.profiles[j] => i = j
  /\ DOMAIN app.profile_coins = Members(app.profiles)
  /\ scene = "menu" => app.active_profile # "none"

C26_Witness ==
  /\ app.profiles = <<"bram", "anna">>
  /\ app.active_profile = "anna"
  /\ app.active_profile_index = 1
  /\ last.op = "adjust_active_coins"
  /\ app.profile_coins = ("anna" :> 1) @@ ("bram" :> 0)

\* the sum of a field of the statistics over all tables
StatSum(stats, field) ==
  SumOver([t \in DOMAIN stats |-> stats[t][field]], DOMAIN stats)

StatsAgree(stats, answered, correct, incorrect) ==
  /\ \A t \in DOMAIN stats :
       stats[t].questions = stats[t].correct + stats[t].incorrect
  /\ StatSum(stats, "questions") = answered
  /\ StatSum(stats, "correct") = correct
  /\ StatSum(stats, "incorrect") = incorrect

\* C27: in every state of a test session and of a practice session the
\* statistics per table agree with the counters of the session: questions =
\* correct + incorrect for each table, the questions of all tables are the
\* accepted answers (the length of history), and the correct and incorrect
\* answers of all tables are the totals of the session.
C27_StatsAgreeWithCounters ==
  /\ scene \in {"test", "test_summary"} =>
       StatsAgree(ts.table_stats, Len(ts.history), ts.correct, ts.incorrect)
  /\ scene = "practice" =>
       /\ StatsAgree(ps.table_stats, Len(ps.history), ps.correct_answers,
                     ps.total_attempts - ps.correct_answers)
       /\ ps.total_attempts = Len(ps.history)

C27_Witness ==
  /\ scene = "test_summary"
  /\ ts.correct = 1
  /\ ts.incorrect = 1
  /\ Cardinality(DOMAIN ts.table_stats) = 2

\* C28: in a test session and in a practice session the response times of
\* all tables together are never more than the time the session has run.
C28_ResponseTimeWithinElapsed ==
  /\ scene \in {"test", "test_summary"} =>
       StatSum(ts.table_stats, "total_time") <= ts.elapsed
  /\ scene = "practice" =>
       StatSum(ps.table_stats, "total_time") <= ps.elapsed

\* C29: in every state of a practice session each configured table has a
\* selection weight of at least 1.0, so the clamp max(weight, 0.1) and the
\* fallback for a total weight of 0 are not used, and each configured table
\* is returned by _select_table for some draw.
C29_EveryTableKeepsItsWeight ==
  scene = "practice" /\ ps.config.tables # <<>> =>
    \A i \in 1..Len(ps.config.tables) :
      LET weight == WeightOf(StatOf(ps.table_stats, ps.config.tables[i]))
      IN  /\ weight.num >= weight.den
          /\ weight.den > 0
          /\ \E k \in 0..DrawGrid :
               PracticeSession_select_table(ps.table_stats, ps.config.tables, k)
                 = ps.config.tables[i]

C29_Witness ==
  /\ scene = "practice"
  /\ ps.total_attempts = 2
  /\ \E t \in DOMAIN ps.table_stats :
       ps.table_stats[t].correct = 1 /\ ps.table_stats[t].total_time = 1
  /\ \E t \in DOMAIN ps.table_stats : ps.table_stats[t].incorrect = 1

\* C30: when a test session has ended, the coins paid to the profile are at
\* least the session_coins counter the header showed during the session.
C30_PayoutCoversSessionCoins ==
  scene = "test_summary" => summary.coin_delta >= ts.session_coins

====
